---- MODULE Spec2Model ----
(***************************************************************************)
(* Secure FTP client with ClamAV scanning: the control session             *)
(* (src/src/ftp_client.py), the transfer commands (src/src/ftp_commands.py)*)
(* the scan-gateway client and reply parser (src/src/network_utils.py) and *)
(* the scan agent (src/src/clamav_agent.py).                               *)
(*                                                                         *)
(* Texts (reply lines, commands) are sequences of one-character strings.   *)
(* The peer of every socket is the environment: each operation draws the   *)
(* outcomes of its socket calls from small sets.                           *)
(***************************************************************************)
EXTENDS Integers, Sequences, FiniteSets, TLC

\* ------------------------------------------------------------------------
\* Bounds of the model
\* ------------------------------------------------------------------------
\* socket calls, prompts and other interactions with the environment that one
\* operation may make
MaxIO == 20
\* seconds the agent's clock (time.time()) advances over a run
MaxTime == 1
\* largest byte count a SIZE message declares
MaxSize == 1
\* chunks a data connection delivers to one download
MaxChunks == 2
\* directories below the root the session changes into
MaxDepth == 1

\* ------------------------------------------------------------------------
\* Text helpers
\* ------------------------------------------------------------------------
\* FTPResponse.code = None (no leading 3-digit code)
NoCode == -1
\* control_socket = None
NoSocket == "none"

Digits == {"0", "1", "2", "3", "4", "5", "6", "7", "8", "9"}
Whitespace == {" ", "\n", "\r", "\t"}
CRLF == <<"\r", "\n">>

DigitVal(ch) ==
    CASE ch = "0" -> 0 [] ch = "1" -> 1 [] ch = "2" -> 2 [] ch = "3" -> 3
      [] ch = "4" -> 4 [] ch = "5" -> 5 [] ch = "6" -> 6 [] ch = "7" -> 7
      [] ch = "8" -> 8 [] ch = "9" -> 9

\* str.startswith
StartsWith(text, prefix) ==
    /\ Len(text) >= Len(prefix)
    /\ SubSeq(text, 1, Len(prefix)) = prefix

\* str.strip(): drop leading and trailing whitespace
RECURSIVE LStrip(_)
LStrip(text) ==
    IF text # <<>> /\ Head(text) \in Whitespace THEN LStrip(Tail(text)) ELSE text

RECURSIVE RStrip(_)
RStrip(text) ==
    IF text # <<>> /\ text[Len(text)] \in Whitespace
    THEN RStrip(SubSeq(text, 1, Len(text) - 1))
    ELSE text

Strip(text) == RStrip(LStrip(text))

\* text.split('\n')[0]
RECURSIVE FirstLine(_)
FirstLine(text) ==
    IF text = <<>> \/ Head(text) = "\n" THEN <<>>
    ELSE <<Head(text)>> \o FirstLine(Tail(text))

\* ------------------------------------------------------------------------
\* FTPResponse (network_utils.py)
\* ------------------------------------------------------------------------
\* the fields of FTPResponse, given self.lines[0] and whether it starts
\* with three digits
ResponseOf(response_text, first_line, has_code) ==
    [raw |-> response_text,
     code |-> IF has_code
              THEN 100 * DigitVal(first_line[1]) + 10 * DigitVal(first_line[2])
                   + DigitVal(first_line[3])
              ELSE NoCode,
     message |-> IF has_code /\ Len(first_line) > 3
                 THEN SubSeq(first_line, 5, Len(first_line))
                 ELSE <<>>]

\* self.lines[0]
ResponseLine(response_text, first_line) ==
    ResponseOf(response_text, first_line,
               Len(first_line) >= 3 /\ \A i \in 1..3 : first_line[i] \in Digits)

FTPResponse(response_text) == ResponseLine(response_text, FirstLine(Strip(response_text)))

\* "self.code and lo <= self.code < hi": None and 0 are falsy
Truthy(code) == code # NoCode /\ code # 0

is_positive(r) == Truthy(r.code) /\ 200 <= r.code /\ r.code < 300
is_positive_preliminary(r) == Truthy(r.code) /\ 100 <= r.code /\ r.code < 200
is_positive_intermediate(r) == Truthy(r.code) /\ 300 <= r.code /\ r.code < 400
is_error(r) == Truthy(r.code) /\ r.code >= 400

\* ------------------------------------------------------------------------
\* State
\* ------------------------------------------------------------------------
VARIABLES
    connected,        \* SecureFTPClient.connected
    logged_in,        \* SecureFTPClient.logged_in
    control_socket,   \* SecureFTPClient.control_socket: NoSocket, or the state
                      \* of the socket object it refers to
    passive_mode,     \* SecureFTPClient.passive_mode
    transfer_mode,    \* SecureFTPClient.transfer_mode
    current_dir,      \* SecureFTPClient.current_dir
    sent,             \* what the last operation wrote to the control socket
    op,               \* the last operation: its name, inputs and outcome
    mput_todo,        \* cmd_mput's position: per pattern, the files still to do
    mget_todo         \* cmd_mget's position: the patterns still to do

sessionVars == <<connected, logged_in, control_socket, passive_mode,
                 transfer_mode, current_dir, sent, op, mput_todo,
                 mget_todo>>

VARIABLES
    running,          \* ClamAVAgent.running
    handlers,         \* the handle_client threads: position and locals
    temp_files,       \* the files of temp_dir: path -> exists, bytes
    now               \* int(time.time())

agentVars == <<running, handlers, temp_files, now>>

VARIABLES
    call              \* one call of a function of network_utils.py or of
                      \* scan_file: its arguments and what it returned

vars == <<sessionVars, agentVars, call>>

\* no function has been called
NoCall ==
    [fn |-> "none", text |-> <<>>, host |-> <<>>, port |-> 0,
     outcome |-> "none", done |-> FALSE, ret |-> <<>>]

\* ------------------------------------------------------------------------
\* The environment: outcomes of the calls an operation makes
\* ------------------------------------------------------------------------
Reply ==
    [T150 |-> <<"1", "5", "0", " ", "g", "o">>,
     T220 |-> <<"2", "2", "0", " ", "h", "i">>,
     T226 |-> <<"2", "2", "6", " ", "o", "k">>,
     T227 |-> <<"2", "2", "7", " ", "o", "k", " ", "(", "1", "2", "7", ",", "0", ",",
                "0", ",", "1", ",", "2", "0", ",", "2", "1", ")">>,
     T227Short |-> <<"2", "2", "7", " ", "o", "k", " ", "(", "1", ",", "2", ",", "3", ",",
                     "4", ",", "5", ")">>,
     T230 |-> <<"2", "3", "0", "-", "h", "i", "\n", "2", "3", "0", " ", "o", "k", "\r", "\n">>,
     T331 |-> <<"3", "3", "1", " ", "p", "w">>,
     T421 |-> <<"4", "2", "1", " ", "n", "o">>,
     T503 |-> <<"5", "0", "3", " ", "n", "o">>,
     T530 |-> <<"5", "3", "0", " ", "n", "o">>,
     Malformed |-> <<"h", "i">>]
\* recv() returned b'': the peer closed the connection
TEmpty == <<>>

\* a call returned normally / raised
Ok == <<"ok">>
Fail == <<"OSError">>
\* send() took only a part of the bytes it was given and returned their number
Short == <<"short">>
\* recv() raised socket.timeout
Timeout == <<"socket.timeout">>

\* what the scan agent may write: the literal READY, and a JSON text, given
\* here by its tokens
READY == <<"R", "E", "A", "D", "Y">>
J(status) == <<"{", "status", status, "message", "m", "details", "d", "}">>
Json ==
    [NoStatus |-> <<"{", "message", "m", "details", "d", "}">>,
     NoDetails |-> <<"{", "status", "INFECTED", "message", "m", "}">>,
     List |-> <<"[", "]">>,
     Truncated |-> <<"{", "status", "OK", "message">>]

\* what each kind of call can produce
Outcomes(kind) ==
    CASE kind = "connect" -> {Ok, Fail}
      [] kind = "greeting" -> {Reply.T220, Reply.T230, Reply.T421, Reply.Malformed,
                               TEmpty, Timeout, Fail}
      [] kind = "send" -> {Ok, Fail}
      [] kind = "reply_login" -> {Reply.T230, Reply.T331, Reply.T503, Reply.T530,
                                  Reply.Malformed, Timeout, Fail}
      [] kind = "reply_data" -> {Reply.T227, Reply.T227Short, Reply.T230, Reply.T530,
                                 Reply.Malformed, Fail}
      [] kind = "reply_transfer" -> {Reply.T150, Reply.T226, Reply.T530,
                                     Reply.Malformed, Fail}
      [] kind = "reply" -> {Reply.T226, Reply.T530, Reply.Malformed, Fail}
      [] kind = "confirm" -> {<<"y">>, <<"Y">>, <<"n">>, <<>>, <<"y", "e", "s">>, Fail}
      [] kind = "mput_confirm" -> {<<"y">>, <<"n">>, Fail}
      [] kind = "data_connect" -> {Ok, Fail}
      [] kind = "accept" -> {Ok, Fail}
      [] kind = "data_send" -> {Ok, Short, Fail}
      [] kind = "local_open" -> {Ok, Fail}
      [] kind = "data_recv" -> {<<"b">>, TEmpty, Fail}
      [] kind = "data_recv_end" -> {TEmpty, Fail}
      [] kind = "agent_connect" -> {Ok, Fail}
      [] kind = "agent_send" -> {Ok, Fail}
      [] kind = "agent_chunk" -> {Ok, Short, Fail}
      [] kind = "agent_reply" -> {READY, READY \o J("OK"), TEmpty, Fail}
      [] kind = "agent_result" -> {J("OK"), J("INFECTED"), J("ERROR"), J("CLEAN"),
                                   Json.NoStatus, Json.NoDetails, Json.List,
                                   Json.Truncated,
                                   TEmpty, Fail}

\* ------------------------------------------------------------------------
\* Commands
\* ------------------------------------------------------------------------
Cmd ==
    [AUTH_TLS |-> <<"A", "U", "T", "H", " ", "T", "L", "S">>,
     USER |-> <<"U", "S", "E", "R", " ">>,
     PASS |-> <<"P", "A", "S", "S", " ">>,
     QUIT |-> <<"Q", "U", "I", "T">>,
     TYPE_A |-> <<"T", "Y", "P", "E", " ", "A">>,
     TYPE_I |-> <<"T", "Y", "P", "E", " ", "I">>,
     PASV |-> <<"P", "A", "S", "V">>,
     PORT |-> <<"P", "O", "R", "T", " ">>,
     STOR |-> <<"S", "T", "O", "R", " ">>,
     RETR |-> <<"R", "E", "T", "R", " ">>,
     LIST |-> <<"L", "I", "S", "T">>,
     CWD |-> <<"C", "W", "D", " ">>]

\* config['ftp_server']['username'] / ['password']
config == [username |-> <<"u">>, password |-> <<"p">>]

\* ------------------------------------------------------------------------
\* The running operation: the session state it works on, what it did so
\* far, and the script of outcomes it still has to consume
\* ------------------------------------------------------------------------
NoResp == [raw |-> <<>>, code |-> NoCode, message |-> <<>>]
\* no scan was asked for
NoResult == [is_dict |-> FALSE, items |-> <<>>]

Ctx(script) ==
    [connected |-> connected, logged_in |-> logged_in,
     control_socket |-> control_socket, passive_mode |-> passive_mode,
     transfer_mode |-> transfer_mode,
     current_dir |-> current_dir,
     sent |-> <<>>,       \* lines written to the control socket
     closed |-> 0,        \* close() calls that closed a control socket
     dropped |-> 0,       \* open control sockets that lost their last reference
     calls |-> <<>>,      \* the send_command calls: command, connected, outcome
     replies |-> <<>>,    \* the codes of the replies receive_response returned
     messages |-> <<>>,   \* and their messages
     unread |-> 0,        \* replies due to commands sent and not read yet
     prelim |-> FALSE,    \* the 1xx reply to a transfer command was read
     raised |-> <<>>,     \* the exceptions raised, in order
     scan |-> <<>>,       \* calls on the socket to the scan agent, in order
     scan_msgs |-> <<>>,  \* text messages written to the scan agent
     scan_bytes |-> 0,    \* payload bytes written to the scan agent
     scan_got |-> <<>>,   \* what recv() returned for FILENAME and for SIZE
     scan_result |-> NoResult,  \* what cmd_put got from scan_file_for_virus
     data |-> <<>>,       \* calls on data sockets, in order
     dsock |-> "none",    \* the local data_socket: none, listen or xfer
     data_bytes |-> 0,    \* file bytes written to the data socket
     local |-> [exists |-> FALSE, size |-> 0],  \* the local file of a download
     asked |-> <<>>,      \* answers to "Continue upload without scan?"
     mput_asked |-> <<>>, \* answers to "Upload <file>?"
     report |-> "",       \* what the operation told the operator
     script |-> script, starved |-> FALSE, want |-> "",
     exc |-> "none", val |-> <<>>, resp |-> NoResp]

Raised(c) == c.exc # "none"

Raise(c, kind) == [c EXCEPT !.exc = kind, !.raised = Append(@, kind)]

\* "except: pass"
Caught(c) == IF c.starved THEN c ELSE [c EXCEPT !.exc = "none"]

\* the next outcome of the script, left in val; a script that ends too early
\* stops the operation where it is (starved) and names the call it was at
Take(c, kind) ==
    IF Raised(c) THEN c
    ELSE IF c.script = <<>>
         THEN [c EXCEPT !.starved = TRUE, !.want = kind, !.exc = "starved"]
         ELSE [c EXCEPT !.val = Head(c.script), !.script = Tail(c.script)]

\* a call that returns nothing: it works or it raises
Checked(t) == IF ~Raised(t) /\ t.val # Ok THEN Raise(t, "io") ELSE t

Call(c, kind) == Checked(Take(c, kind))

\* the record of a call of send_command
Called(c, command, outcome) ==
    [c EXCEPT !.calls = Append(@, [command |-> command, connected |-> c.connected,
                                   outcome |-> outcome, unread |-> c.unread])]

\* self.control_socket.send(...)
socket_send(c) == IF c.control_socket # "conn" THEN Raise(c, "io") ELSE Call(c, "send")

\* what send() made of the line command + CRLF
socket_sent(t, command) ==
    IF t.starved THEN t
    ELSE IF Raised(t) THEN Called(t, command, "io")
    ELSE [Called([t EXCEPT !.sent = Append(@, command \o CRLF)], command, "sent")
            EXCEPT !.unread = @ + 1]

\* send_command without "if not self.connected: raise"
send_command_unguarded(c, command) ==
    IF Raised(c) THEN c ELSE socket_sent(socket_send(c), command)

\* SecureFTPClient.send_command
send_command(c, command) ==
    IF Raised(c) THEN c
    ELSE IF ~c.connected
         THEN Raise(Called(c, command, "error"), "not_connected")
         ELSE socket_sent(socket_send(c), command)

\* the replies the server is taken to give after the command sent last
Verb(calls) == IF calls = <<>> THEN <<>> ELSE SubSeq(calls[Len(calls)].command, 1, 4)

ReplyKind(c) ==
    IF Verb(c.calls) \in {<<"A", "U", "T", "H">>, <<"U", "S", "E", "R">>,
                          <<"P", "A", "S", "S">>}
    THEN "reply_login"
    ELSE IF Verb(c.calls) \in {Cmd.PASV, <<"P", "O", "R", "T">>} THEN "reply_data"
    ELSE IF Verb(c.calls) \in {<<"S", "T", "O", "R">>, <<"R", "E", "T", "R">>, Cmd.LIST}
         THEN "reply_transfer"
    ELSE "reply"

\* SecureFTPClient.receive_response
\* the FTPResponse it returns, its code and its message noted; a reply read
\* is no longer due, but after the 1xx reply to STOR, RETR or LIST the
\* completion reply is
response_got(t, response) ==
    [t EXCEPT !.resp = response,
              !.replies = Append(@, response.code),
              !.messages = Append(@, response.message),
              !.unread = IF @ = 0 \/ (is_positive_preliminary(response) /\ ~t.prelim
                                       /\ ReplyKind(t) = "reply_transfer")
                         THEN @ ELSE @ - 1,
              !.prelim = is_positive_preliminary(response) /\ ~t.prelim
                         /\ ReplyKind(t) = "reply_transfer" /\ t.unread > 0]

\* what recv(1024) returned, stripped and parsed; after a timeout the reply
\* is still to come, on a connection that failed none is
received(t) ==
    IF Raised(t) THEN t
    ELSE IF t.val = Timeout THEN Raise(t, "io")
    ELSE IF t.val = Fail THEN [Raise(t, "io") EXCEPT !.unread = 0]
    ELSE response_got(t, FTPResponse(Strip(t.val)))

receive_response(c) ==
    IF Raised(c) THEN c
    ELSE IF c.control_socket # "conn" THEN Raise(c, "io")
    ELSE received(Take(c, ReplyKind(c)))

\* ------------------------------------------------------------------------
\* SecureFTPClient.connect
\* ------------------------------------------------------------------------
\* rebinding self.control_socket: the socket it referred to is lost
Rebind(c, state) ==
    [c EXCEPT !.control_socket = state,
              !.dropped = IF c.control_socket = NoSocket THEN @ ELSE @ + 1]

\* self.control_socket.connect((host, port))
connect_tcp(tcp) == IF Raised(tcp) THEN tcp ELSE [tcp EXCEPT !.control_socket = "conn"]

\* the welcome message
connect_greeting(g) ==
    IF Raised(g) THEN [ctx |-> Caught(g), ret |-> FALSE]
    ELSE IF g.val \in {Timeout, Fail} THEN [ctx |-> g, ret |-> FALSE]
    ELSE IF StartsWith(Strip(g.val), <<"2", "2", "0">>)
         THEN [ctx |-> [g EXCEPT !.connected = TRUE], ret |-> TRUE]
         ELSE [ctx |-> g, ret |-> FALSE]

connect(c) ==
    connect_greeting(Take(connect_tcp(Call(Rebind(c, "fresh"), "connect")), "greeting"))

\* ------------------------------------------------------------------------
\* SecureFTPClient.login
\* ------------------------------------------------------------------------
\* "if response.code == 331: PASS"
login_pass(u) ==
    IF ~Raised(u) /\ u.resp.code = 331
    THEN receive_response(send_command(u, Cmd.PASS \o config.password))
    ELSE u

\* the 503 branch: USER again
user_pass(c) == login_pass(receive_response(send_command(c, Cmd.USER \o config.username)))

\* the branches on the reply to USER
login_user(u) ==
    IF Raised(u) THEN u
    ELSE IF u.resp.code = 331 THEN receive_response(send_command(u, Cmd.PASS \o config.password))
    ELSE IF u.resp.code = 503 THEN user_pass(u)
    ELSE u

\* "if response.is_positive()" and "except Exception"
login_result(fin) ==
    IF Raised(fin) THEN [ctx |-> Caught(fin), ret |-> FALSE]
    ELSE IF is_positive(fin.resp)
         THEN [ctx |-> [fin EXCEPT !.logged_in = TRUE], ret |-> TRUE]
         ELSE [ctx |-> fin, ret |-> FALSE]

\* AUTH TLS, whose failure is ignored
login_auth(c) == Caught(receive_response(send_command(c, Cmd.AUTH_TLS)))

login(c) ==
    IF ~c.connected THEN [ctx |-> c, ret |-> FALSE]
    ELSE login_result(login_user(
             receive_response(send_command(login_auth(c), Cmd.USER \o config.username))))

\* ------------------------------------------------------------------------
\* SecureFTPClient.disconnect
\* ------------------------------------------------------------------------
\* self.control_socket.close()
close_control(c) ==
    IF Raised(c) THEN c
    ELSE IF c.control_socket = NoSocket THEN Raise(c, "io")
    ELSE [c EXCEPT !.control_socket = "closed", !.closed = @ + 1]

\* self.control_socket = None
Unbind(c) ==
    [c EXCEPT !.control_socket = NoSocket,
              !.dropped = IF c.control_socket \in {NoSocket, "closed"} THEN @ ELSE @ + 1]

\* "if self.logged_in: Cmd.QUIT"
disconnect_quit(c) ==
    IF c.logged_in THEN receive_response(send_command(c, Cmd.QUIT)) ELSE c

\* disconnect whose "finally" resets connected only
disconnect_keeps_login(c) ==
    IF ~c.connected THEN c
    ELSE Unbind([Caught(close_control(disconnect_quit(c))) EXCEPT !.connected = FALSE])

disconnect(c) ==
    IF ~c.connected THEN c
    ELSE Unbind([Caught(close_control(disconnect_quit(c)))
                   EXCEPT !.connected = FALSE, !.logged_in = FALSE])

\* ------------------------------------------------------------------------
\* Local files
\* ------------------------------------------------------------------------
\* bytes read and sent per chunk: f.read(8192)
ChunkSize == 8192

File ==
    [clean |-> [name |-> <<"d", "/", "a">>, exists |-> TRUE, size |-> 41],
     big |-> [name |-> <<"b">>, exists |-> TRUE, size |-> ChunkSize + 1],
     empty |-> [name |-> <<"e">>, exists |-> TRUE, size |-> 0],
     missing |-> [name |-> <<"g">>, exists |-> FALSE, size |-> 0]]
LocalFiles == {File.clean, File.big, File.empty, File.missing}
\* the files put is tried on, and the arguments of mput: per pattern, the
\* files glob.glob() returns for it
PutFiles == {File.clean, File.missing}
MputArgs == {<< <<File.empty, File.clean>>, <<File.empty>> >>}

\* str(n) for n >= 0
DigitChar(d) ==
    CASE d = 0 -> "0" [] d = 1 -> "1" [] d = 2 -> "2" [] d = 3 -> "3" [] d = 4 -> "4"
      [] d = 5 -> "5" [] d = 6 -> "6" [] d = 7 -> "7" [] d = 8 -> "8" [] d = 9 -> "9"

RECURSIVE IntToStr(_)
IntToStr(n) ==
    IF n < 10 THEN <<DigitChar(n)>>
    ELSE IntToStr(n \div 10) \o <<DigitChar(n % 10)>>

\* Path.name / os.path.basename: what follows the last '/'
RECURSIVE Basename(_)
Basename(path) ==
    IF \E i \in 1..Len(path) : path[i] = "/" THEN Basename(Tail(path)) ELSE path

\* ------------------------------------------------------------------------
\* NetworkUtils.send_file_to_clamav
\* ------------------------------------------------------------------------
FILENAME_ == <<"F", "I", "L", "E", "N", "A", "M", "E", ":">>
SIZE_ == <<"S", "I", "Z", "E", ":">>

\* json.loads on the tokens of the text: an object, another JSON value, or
\* a ValueError
json_loads(tokens) ==
    LET n == Len(tokens)
        pairs == (n - 2) \div 2
        keys == {tokens[2 * i] : i \in 1..pairs}
        LastOf(k) == CHOOSE i \in 1..pairs :
                        /\ tokens[2 * i] = k
                        /\ \A j \in 1..pairs : tokens[2 * j] = k => j <= i
    IN  IF n >= 2 /\ tokens[1] = "{" /\ tokens[n] = "}" /\ n % 2 = 0
        THEN [ok |-> TRUE, is_dict |-> TRUE,
              items |-> [k \in keys |-> tokens[2 * LastOf(k) + 1]]]
        ELSE IF tokens = <<"[", "]">>
             THEN [ok |-> TRUE, is_dict |-> FALSE, items |-> <<>>]
             ELSE [ok |-> FALSE, is_dict |-> FALSE, items |-> <<>>]

\* a result dict built by the code itself
Result(status, message) ==
    [is_dict |-> TRUE,
     items |-> [k \in {"status", "message", "details"} |->
                  IF k = "status" THEN status ELSE IF k = "message" THEN message ELSE "d"]]

ScanCall(c, what) == IF Raised(c) THEN c ELSE [c EXCEPT !.scan = Append(@, what)]

\* client_socket.send(text)
scan_sent(t, text) == IF Raised(t) THEN t ELSE [t EXCEPT !.scan_msgs = Append(@, text)]

scan_send(c, what, text) == scan_sent(Call(ScanCall(c, what), "agent_send"), text)

\* "if response != b'READY': raise"
scan_reply(t) ==
    IF Raised(t) THEN t
    ELSE IF t.val = Fail \/ t.val # READY THEN Raise([t EXCEPT !.scan_got = Append(@, t.val)], "io")
    ELSE [t EXCEPT !.scan_got = Append(@, t.val)]

scan_reply_any(t) ==
    IF Raised(t) THEN t
    ELSE IF t.val = Fail THEN Raise([t EXCEPT !.scan_got = Append(@, t.val)], "io")
    ELSE [t EXCEPT !.scan_got = Append(@, t.val)]

\* a handshake that takes any reply for READY
scan_ready_any(c) == scan_reply_any(Take(ScanCall(c, "recv"), "agent_reply"))

\* response = client_socket.recv(1024); if response != b'READY': raise
scan_ready(c) == scan_reply(Take(ScanCall(c, "recv"), "agent_reply"))

\* the loop "while sent < file_size": one send() per chunk read
Chunk(total, done) == IF total - done < ChunkSize THEN total - done ELSE ChunkSize

\* the bytes a send() of a chunk put on the socket: all of them, or, when
\* it returned early, fewer (its return value is not looked at)
Accepted(chunk, outcome) == IF outcome = Short /\ chunk > 1 THEN chunk - 1 ELSE chunk

\* socket.send(chunk): it raises or it returns a count
chunk_sent(t) == IF ~Raised(t) /\ t.val = Fail THEN Raise(t, "io") ELSE t

RECURSIVE scan_payload(_, _, _)
scan_chunk(t, file_size, done) ==
    IF Raised(t) THEN t
    ELSE scan_payload([t EXCEPT !.scan_bytes = @ + Accepted(Chunk(file_size, done), t.val)],
                      file_size, done + Chunk(file_size, done))

scan_payload(c, file_size, done) ==
    IF Raised(c) \/ done >= file_size THEN c
    ELSE scan_chunk(chunk_sent(Take(ScanCall(c, "send_chunk"), "agent_chunk")),
                    file_size, done)

\* json.loads went through: close() and return result
scan_parsed(got, parsed) ==
    IF ~parsed.ok THEN Raise(got, "io")
    ELSE [ScanCall(got, "close")
            EXCEPT !.scan_result = [is_dict |-> parsed.is_dict, items |-> parsed.items]]

\* result_data = client_socket.recv(4096); result = json.loads(result_data)
scan_received(got) ==
    IF Raised(got) THEN got
    ELSE IF got.val = Fail THEN Raise(got, "io")
    ELSE scan_parsed(got, json_loads(got.val))

\* "return result", or "except Exception: return {'status': 'ERROR', ...}"
scan_return(res) ==
    IF Raised(res)
    THEN [ctx |-> [Caught(res) EXCEPT !.scan_result = Result("ERROR", "Failed to scan file")],
          ret |-> Result("ERROR", "Failed to scan file")]
    ELSE [ctx |-> res, ret |-> res.scan_result]

\* connect and the two steps FILENAME and SIZE
scan_handshake(c, file) ==
    scan_ready(scan_send(
        scan_ready(scan_send(Call(ScanCall(c, "connect"), "agent_connect"),
                             "send_filename", FILENAME_ \o Basename(file.name))),
        "send_size", SIZE_ \o IntToStr(file.size)))

send_file_to_clamav(c, file) ==
    IF ~file.exists
    THEN [ctx |-> [c EXCEPT !.scan_result = Result("ERROR", "File not found")],
          ret |-> Result("ERROR", "File not found")]
    ELSE scan_return(scan_received(
             Take(ScanCall(scan_payload(scan_handshake(c, file), file.size, 0),
                           "recv_result"),
                  "agent_result")))

\* ------------------------------------------------------------------------
\* NetworkUtils.parse_pasv_response / create_port_command
\* ------------------------------------------------------------------------
\* the end of the run of digits that starts at i
RECURSIVE DigitsEnd(_, _)
DigitsEnd(text, i) ==
    IF i <= Len(text) /\ text[i] \in Digits THEN DigitsEnd(text, i + 1) ELSE i

\* int() of a run of digits
RECURSIVE StrToInt(_)
StrToInt(ds) ==
    IF ds = <<>> THEN 0
    ELSE 10 * StrToInt(SubSeq(ds, 1, Len(ds) - 1)) + DigitVal(ds[Len(ds)])

\* (\d+),(\d+),(\d+),(\d+),(\d+),(\d+)\) from position i, field k
RECURSIVE MatchFields(_, _, _, _)
MatchFields(text, i, k, acc) ==
    LET j == DigitsEnd(text, i)
        nums == Append(acc, StrToInt(SubSeq(text, i, j - 1)))
    IN  IF j = i \/ j > Len(text) THEN [ok |-> FALSE, nums |-> <<>>]
        ELSE IF k = 6
             THEN IF text[j] = ")" THEN [ok |-> TRUE, nums |-> nums]
                  ELSE [ok |-> FALSE, nums |-> <<>>]
        ELSE IF text[j] = "," THEN MatchFields(text, j + 1, k + 1, nums)
        ELSE [ok |-> FALSE, nums |-> <<>>]

NoAddress == [found |-> FALSE, ip |-> <<>>, port |-> 0]

\* the two port bytes read in the wrong order
parse_pasv_response_low_byte_first(response) ==
    LET starts == {i \in 1..Len(response) :
                     response[i] = "(" /\ MatchFields(response, i + 1, 1, <<>>).ok}
    IN  IF starts = {} THEN NoAddress
        ELSE LET first == CHOOSE i \in starts : \A j \in starts : i <= j
                 n == MatchFields(response, first + 1, 1, <<>>).nums
             IN  [found |-> TRUE,
                  ip |-> IntToStr(n[1]) \o <<".">> \o IntToStr(n[2]) \o <<".">>
                         \o IntToStr(n[3]) \o <<".">> \o IntToStr(n[4]),
                  port |-> n[5] + 256 * n[6]]

parse_pasv_response(response) ==
    LET starts == {i \in 1..Len(response) :
                     response[i] = "(" /\ MatchFields(response, i + 1, 1, <<>>).ok}
    IN  IF starts = {} THEN NoAddress
        ELSE LET first == CHOOSE i \in starts : \A j \in starts : i <= j
                 n == MatchFields(response, first + 1, 1, <<>>).nums
             IN  [found |-> TRUE,
                  ip |-> IntToStr(n[1]) \o <<".">> \o IntToStr(n[2]) \o <<".">>
                         \o IntToStr(n[3]) \o <<".">> \o IntToStr(n[4]),
                  port |-> n[5] * 256 + n[6]]

\* str.split(sep)
RECURSIVE Split(_, _)
Split(text, sep) ==
    IF \E i \in 1..Len(text) : text[i] = sep
    THEN LET at == CHOOSE i \in 1..Len(text) :
                      text[i] = sep /\ \A j \in 1..(i - 1) : text[j] # sep
         IN  <<SubSeq(text, 1, at - 1)>> \o Split(SubSeq(text, at + 1, Len(text)), sep)
    ELSE <<text>>

\* sep.join(parts)
RECURSIVE Join(_, _)
Join(parts, sep) ==
    IF parts = <<>> THEN <<>>
    ELSE IF Len(parts) = 1 THEN parts[1]
    ELSE parts[1] \o <<sep>> \o Join(Tail(parts), sep)

\* the port split at 255 instead of 256
create_port_command_base_255(host, port) ==
    LET ip_parts == Split(host, ".")
        p1 == port \div 255
        p2 == port % 255
    IN  IF Len(ip_parts) # 4 THEN [ok |-> FALSE, cmd |-> <<>>]
        ELSE [ok |-> TRUE,
              cmd |-> Cmd.PORT \o Join(ip_parts, ",") \o <<",">> \o IntToStr(p1)
                      \o <<",">> \o IntToStr(p2)]

create_port_command(host, port) ==
    LET ip_parts == Split(host, ".")
        p1 == port \div 256
        p2 == port % 256
    IN  IF Len(ip_parts) # 4 THEN [ok |-> FALSE, cmd |-> <<>>]
        ELSE [ok |-> TRUE,
              cmd |-> Cmd.PORT \o Join(ip_parts, ",") \o <<",">> \o IntToStr(p1)
                      \o <<",">> \o IntToStr(p2)]

\* ------------------------------------------------------------------------
\* SecureFTPClient.open_data_connection
\* ------------------------------------------------------------------------
\* control_socket.getsockname()[0] and the port bind(('', 0)) was given
LocalHost == <<"1", "2", "7", ".", "0", ".", "0", ".", "1">>
EphemeralPort == 5141

DataCall(c, what) == IF Raised(c) THEN c ELSE [c EXCEPT !.data = Append(@, what)]

\* data_socket.close()
data_close(c) ==
    IF Raised(c) THEN c
    ELSE [DataCall(c, IF c.dsock = "listen" THEN "close_listen" ELSE "close")
            EXCEPT !.dsock = "none"]

\* a PASV reply without an address taken for one: the connection is tried
\* all the same
pasv_reply_fallback(r) ==
    IF Raised(r) THEN r
    ELSE IF ~is_positive(r.resp) THEN Raise(r, "pasv_failed")
    ELSE Call(DataCall([DataCall(r, "socket") EXCEPT !.dsock = "xfer"], "connect"),
              "data_connect")

pasv_reply(r) ==
    IF Raised(r) THEN r
    ELSE IF ~is_positive(r.resp) THEN Raise(r, "pasv_failed")
    ELSE IF ~parse_pasv_response(r.resp.message).found THEN Raise(r, "pasv_parse")
    ELSE Call(DataCall([DataCall(r, "socket") EXCEPT !.dsock = "xfer"], "connect"),
              "data_connect")

open_passive_data_connection(c) == pasv_reply(receive_response(send_command(c, Cmd.PASV)))

\* self.control_socket.getsockname()
port_named(bound) ==
    IF Raised(bound) THEN bound
    ELSE IF bound.control_socket \in {NoSocket, "closed"} THEN Raise(bound, "io")
    ELSE bound

port_send(named, port_command) ==
    IF Raised(named) THEN named
    ELSE IF ~port_command.ok THEN Raise(named, "ValueError")
    ELSE DataCall(send_command(named, port_command.cmd), "port")

\* a PORT reply that is not looked at
port_reply_unchecked(r) == r

port_reply(r) ==
    IF Raised(r) THEN r
    ELSE IF ~is_positive(r.resp) THEN Raise(data_close(r), "port_failed")
    ELSE r

open_active_data_connection(c) ==
    port_reply(receive_response(
        port_send(port_named(DataCall(DataCall([DataCall(c, "socket")
                                                  EXCEPT !.dsock = "listen"],
                                               "bind"), "listen")),
                  create_port_command(LocalHost, EphemeralPort))))

open_data_connection(c) ==
    IF Raised(c) THEN c
    ELSE IF c.passive_mode THEN open_passive_data_connection(c)
    ELSE open_active_data_connection(c)

\* ------------------------------------------------------------------------
\* FTPCommands
\* ------------------------------------------------------------------------
Report(c, what) == IF Raised(c) THEN c ELSE [c EXCEPT !.report = what]

\* a check that is content with a connection
check_connection_connected_only(c) == c.connected
\* FTPCommands._check_connection
check_connection(c) == c.connected /\ c.logged_in

\* str.lower()
Lower(text) ==
    LET upper == <<"A", "B", "C", "D", "E", "F", "G", "H", "I", "J", "K", "L", "M",
                   "N", "O", "P", "Q", "R", "S", "T", "U", "V", "W", "X", "Y", "Z">>
        lower == <<"a", "b", "c", "d", "e", "f", "g", "h", "i", "j", "k", "l", "m",
                   "n", "o", "p", "q", "r", "s", "t", "u", "v", "w", "x", "y", "z">>
    IN  [i \in 1..Len(text) |->
            IF \E k \in 1..26 : upper[k] = text[i]
            THEN lower[CHOOSE k \in 1..26 : upper[k] = text[i]]
            ELSE text[i]]

\* NetworkUtils.send_file_via_socket: one send() per chunk; an exception
\* ends the loop and is reported as False (left in val)
RECURSIVE send_chunks(_, _, _)
send_chunk(t, total_size, done) ==
    IF Raised(t) THEN t
    ELSE send_chunks([t EXCEPT !.data_bytes = @ + Accepted(Chunk(total_size, done), t.val)],
                     total_size, done + Chunk(total_size, done))

send_chunks(c, total_size, done) ==
    IF Raised(c) \/ done >= total_size THEN c
    ELSE send_chunk(chunk_sent(Take(DataCall(c, "send"), "data_send")), total_size, done)

file_sent(s) ==
    IF s.starved THEN s
    ELSE IF Raised(s) THEN [Caught(s) EXCEPT !.val = Fail]
    ELSE [s EXCEPT !.val = Ok]

send_file_via_socket(c, file) ==
    IF Raised(c) THEN c ELSE file_sent(send_chunks(c, file.size, 0))

\* cmd_put without its "except Exception": the exception leaves cmd_put
put_except_none(c) == c

\* "except Exception as e: print(PUT error)"
put_except(c) ==
    IF c.starved THEN c
    ELSE IF Raised(c) THEN [Caught(c) EXCEPT !.report = "put_error"]
    ELSE c

\* a reply read by cmd_put or cmd_get itself, and the STOR or RETR command
\* they sent, are marked in the log of the data calls
get_marked(r) == DataCall(r, "reply")

get_response(c) == get_marked(receive_response(c))

transfer_command(c, command) == DataCall(send_command(c, command), "command")

\* cmd_put, step 2: the transfer
\* conn, addr = data_socket.accept() in active mode
accepted(a) == IF Raised(a) THEN a ELSE [a EXCEPT !.dsock = "xfer"]

data_accept(st) ==
    IF st.passive_mode THEN st ELSE accepted(Call(DataCall(st, "accept"), "accept"))

\* the completion reply
transfer_reply(fin, success) ==
    IF Raised(fin) THEN fin
    ELSE IF success = Ok /\ is_positive(fin.resp) THEN Report(fin, "uploaded")
    ELSE Report(fin, "upload_failed")

transfer_done(success) == transfer_reply(get_response(data_close(success)), success.val)

\* the reply to STOR
stor_reply(st, file) ==
    IF Raised(st) THEN st
    ELSE IF is_positive_preliminary(st.resp)
         THEN transfer_done(send_file_via_socket(data_accept(st), file))
         ELSE Report(data_close(st), "stor_failed")

upload(c, file) ==
    stor_reply(get_response(transfer_command(open_data_connection(c),
                                             Cmd.STOR \o Basename(file.name))),
               file)

\* ------------------------------------------------------------------------
\* FTPCommands.cmd_get and NetworkUtils.receive_file_via_socket
\* ------------------------------------------------------------------------
RemoteFiles == {<<"f">>}

\* open(file_path, 'wb')
local_open(t) ==
    IF Raised(t) THEN t
    ELSE [DataCall(t, "open") EXCEPT !.local = [exists |-> TRUE, size |-> 0]]

\* one pass of "while True": chunk = sock.recv(8192), f.write(chunk); an
\* empty chunk ends the loop
RECURSIVE recv_chunks(_, _)
recv_chunk(t, n) ==
    IF Raised(t) THEN t
    ELSE IF t.val = Fail THEN Raise(t, "io")
    ELSE IF t.val = TEmpty THEN DataCall(t, "eof")
    ELSE recv_chunks([DataCall(t, "write") EXCEPT !.local.size = @ + Len(t.val)], n + 1)

recv_chunks(c, n) ==
    IF Raised(c) THEN c
    ELSE recv_chunk(Take(DataCall(c, "recv"),
                         IF n < MaxChunks THEN "data_recv" ELSE "data_recv_end"), n)

\* an exception ends the loop and is reported as False (left in val)
file_received(s) ==
    IF s.starved THEN s
    ELSE IF Raised(s) THEN [Caught(s) EXCEPT !.val = Fail]
    ELSE [s EXCEPT !.val = Ok]

receive_file_via_socket(c) ==
    IF Raised(c) THEN c
    ELSE file_received(recv_chunks(local_open(Call(c, "local_open")), 0))

\* "try: os.remove(local_file) except: pass"
remove_partial(c) ==
    IF ~c.local.exists THEN c
    ELSE [DataCall(c, "remove") EXCEPT !.local = [exists |-> FALSE, size |-> 0]]

\* the completion reply
download_reply(fin, success) ==
    IF Raised(fin) THEN fin
    ELSE IF success = Ok /\ is_positive(fin.resp) THEN Report(fin, "downloaded")
    ELSE Report(remove_partial(fin), "download_failed")

download_done(success) == download_reply(get_response(data_close(success)), success.val)

\* a download that starts whatever the reply to RETR was
retr_reply_any(r) ==
    IF Raised(r) THEN r
    ELSE download_done(receive_file_via_socket(data_accept(r)))

\* the reply to RETR
retr_reply(r) ==
    IF Raised(r) THEN r
    ELSE IF is_positive_preliminary(r.resp)
         THEN download_done(receive_file_via_socket(data_accept(r)))
         ELSE Report(data_close(r), "retr_failed")

\* "except Exception as e: print(GET error)"
get_except(c) ==
    IF c.starved THEN c
    ELSE IF Raised(c) THEN [Caught(c) EXCEPT !.report = "get_error"]
    ELSE c

\* FTPCommands.cmd_get
cmd_get(c, remote_file) ==
    IF ~check_connection(c) THEN Report(c, "not_connected")
    ELSE get_except(retr_reply(get_response(
             transfer_command(open_data_connection(c), Cmd.RETR \o remote_file))))

\* scan_result[key]
HasKey(result, key) == result.is_dict /\ key \in DOMAIN result.items

\* a gate that looks for the status 'VIRUS' where the agent says 'INFECTED'
scan_gate_wrong_status(scan_result) ==
    IF ~HasKey(scan_result, "status") THEN "raise"
    ELSE IF scan_result.items["status"] = "VIRUS"
         THEN IF HasKey(scan_result, "message") /\ HasKey(scan_result, "details")
              THEN "blocked" ELSE "raise"
    ELSE IF scan_result.items["status"] = "ERROR"
         THEN IF HasKey(scan_result, "message") THEN "ask" ELSE "raise"
    ELSE "proceed"

\* cmd_put, step 1: what the scan result makes of the upload: an exception
\* (KeyError, TypeError), blocked, the operator is asked, or it goes ahead
scan_gate(scan_result) ==
    IF ~HasKey(scan_result, "status") THEN "raise"
    ELSE IF scan_result.items["status"] = "INFECTED"
         THEN IF HasKey(scan_result, "message") /\ HasKey(scan_result, "details")
              THEN "blocked" ELSE "raise"
    ELSE IF scan_result.items["status"] = "ERROR"
         THEN IF HasKey(scan_result, "message") THEN "ask" ELSE "raise"
    ELSE "proceed"

\* a prompt that goes ahead unless the answer is 'n'
confirmed_unless_no(confirm) == Lower(confirm) # <<"n">>

\* "if confirm.lower() != 'y': return"
confirmed(confirm) == Lower(confirm) = <<"y">>

\* confirm = input("Continue upload without scan? (y/N): ")
put_confirm(a, file) ==
    IF Raised(a) THEN a
    ELSE IF a.val = Fail THEN Raise(a, "EOFError")
    ELSE IF ~confirmed(a.val) THEN Report([a EXCEPT !.asked = Append(@, a.val)], "cancelled")
    ELSE upload([a EXCEPT !.asked = Append(@, a.val)], file)

\* the branches on scan_result['status']
put_gate(sc, gate, file) ==
    IF gate = "raise" THEN Raise(sc, "KeyError")
    ELSE IF gate = "blocked" THEN Report(sc, "blocked")
    ELSE IF gate = "ask" THEN put_confirm(Take(sc, "confirm"), file)
    ELSE upload(sc, file)

put_scanned(sc, file) ==
    IF sc.starved THEN sc ELSE put_gate(sc, scan_gate(sc.scan_result), file)

\* cmd_put without "if not os.path.exists(local_file)"
cmd_put_unchecked(c, file) ==
    IF ~check_connection(c) THEN Report(c, "not_connected")
    ELSE put_except(put_scanned(send_file_to_clamav(c, file).ctx, file))

\* FTPCommands.cmd_put
cmd_put(c, file) ==
    IF ~check_connection(c) THEN Report(c, "not_connected")
    ELSE IF ~file.exists THEN Report(c, "not_found")
    ELSE put_except(put_scanned(send_file_to_clamav(c, file).ctx, file))

\* ------------------------------------------------------------------------
\* SecureFTPClient.set_transfer_mode, called by cmd_ascii / cmd_binary
\* through execute_command, which catches what it raises
\* ------------------------------------------------------------------------
type_sent(s, mode) == IF Raised(s) THEN s ELSE [s EXCEPT !.transfer_mode = mode]

type_reply(r) ==
    IF Raised(r) THEN r
    ELSE IF is_positive(r.resp) THEN Report(r, "mode_set")
    ELSE Report(r, "mode_failed")

set_transfer_mode(c, mode) ==
    type_reply(receive_response(
        type_sent(send_command(c, IF mode = "ascii" THEN Cmd.TYPE_A ELSE Cmd.TYPE_I), mode)))

\* ------------------------------------------------------------------------
\* FTPCommands.cmd_cd
\* ------------------------------------------------------------------------
\* the directories cd is tried on: relative, absolute, and the parent
Dirs == {<<"d">>, <<"/", "d">>, <<".", ".">>}

\* str.replace("//", "/")
RECURSIVE ReplaceSlashes(_)
ReplaceSlashes(text) ==
    IF Len(text) < 2 THEN text
    ELSE IF text[1] = "/" /\ text[2] = "/"
         THEN <<"/">> \o ReplaceSlashes(SubSeq(text, 3, Len(text)))
         ELSE <<text[1]>> \o ReplaceSlashes(Tail(text))

\* "/".join(current_dir.split("/")[:-1]) or "/"
Parent(dir) ==
    IF Join(SubSeq(Split(dir, "/"), 1, Len(Split(dir, "/")) - 1), "/") = <<>>
    THEN <<"/">>
    ELSE Join(SubSeq(Split(dir, "/"), 1, Len(Split(dir, "/")) - 1), "/")

\* "Update current directory"
Changed(current, directory) ==
    IF directory = <<".", ".">> THEN Parent(current)
    ELSE IF StartsWith(directory, <<"/">>) THEN directory
    ELSE ReplaceSlashes(current \o <<"/">> \o directory)

\* a reply to CWD taken for positive whatever it is
cwd_reply_any(r, directory) ==
    IF Raised(r) THEN r
    ELSE Report([r EXCEPT !.current_dir = Changed(@, directory)], "cwd_done")

\* the reply to CWD
cwd_reply(r, directory) ==
    IF Raised(r) THEN r
    ELSE IF is_positive(r.resp)
         THEN Report([r EXCEPT !.current_dir = Changed(@, directory)], "cwd_done")
         ELSE Report(r, "cwd_failed")

\* "except Exception as e: print(CD error)"
cd_except(c) ==
    IF c.starved THEN c
    ELSE IF Raised(c) THEN [Caught(c) EXCEPT !.report = "cd_error"]
    ELSE c

cmd_cd(c, directory) ==
    IF ~check_connection(c) THEN Report(c, "not_connected")
    ELSE cd_except(cwd_reply(receive_response(send_command(c, Cmd.CWD \o directory)),
                             directory))

\* FTPCommands.execute_command: "except Exception: print(Command failed)"
execute_command(c) ==
    IF c.starved THEN c
    ELSE IF Raised(c) THEN [Caught(c) EXCEPT !.report = "command_failed"]
    ELSE c

\* SecureFTPClient.toggle_passive_mode
toggle_passive_mode(c) == [c EXCEPT !.passive_mode = ~c.passive_mode]

\* SecureFTPClient.prompt_mode (cmd_prompt, which toggles it, is not modelled)
prompt_mode == TRUE

\* FTPCommands.cmd_mput, one pass of "for file_path in files": the prompt
\* and cmd_put; an exception (only input() can raise one here) is left
\* raised for the "except" of the pattern loop
\* confirm = input(f"Upload {file_path}? (y/n): ")
mput_confirm(a, file) ==
    IF Raised(a) THEN a
    ELSE IF a.val = Fail THEN Raise(a, "EOFError")
    ELSE IF ~confirmed(a.val) THEN Report([a EXCEPT !.mput_asked = Append(@, a.val)], "skipped")
    ELSE cmd_put([a EXCEPT !.mput_asked = Append(@, a.val)], file)

mput_file(c, file) ==
    IF ~file.exists THEN Report(c, "skipped")
    ELSE IF prompt_mode THEN mput_confirm(Take(c, "mput_confirm"), file)
    ELSE cmd_put(c, file)

\* ------------------------------------------------------------------------
\* FTPCommands.cmd_ls and cmd_mget
\* ------------------------------------------------------------------------
\* the arguments of mget
MgetArgs == {<< <<"f">>, <<"*">>, <<"g">> >>}

\* the listing: "while True: chunk = data_socket.recv(8192)" until an empty
\* chunk, inside "try: ... except: pass"
RECURSIVE ls_chunks(_, _)
ls_chunk(t, n) ==
    IF Raised(t) \/ t.val = Fail THEN t
    ELSE IF t.val = TEmpty THEN DataCall(t, "eof")
    ELSE ls_chunks(t, n + 1)

ls_chunks(c, n) ==
    IF Raised(c) THEN c
    ELSE ls_chunk(Take(DataCall(c, "recv"),
                       IF n < MaxChunks THEN "data_recv" ELSE "data_recv_end"), n)

\* the completion reply of LIST
ls_done(fin) ==
    IF Raised(fin) THEN fin
    ELSE IF is_positive(fin.resp) THEN Report(fin, "listed")
    ELSE Report(fin, "ls_failed")

\* the reply to LIST
ls_reply(r) ==
    IF Raised(r) THEN r
    ELSE IF is_positive_preliminary(r.resp)
         THEN ls_done(get_response(data_close(ls_chunks(r, 0))))
         ELSE Report(r, "ls_failed")

\* the reply to PASV: cmd_ls parses it and connects by itself
ls_pasv(r, path) ==
    IF Raised(r) THEN r
    ELSE IF ~is_positive(r.resp) THEN Report(r, "ls_pasv_failed")
    ELSE IF ~parse_pasv_response(r.resp.message).found THEN Report(r, "ls_pasv_parse")
    ELSE ls_reply(get_response(transfer_command(
             Call(DataCall([DataCall(r, "socket") EXCEPT !.dsock = "xfer"], "connect"),
                  "data_connect"),
             Cmd.LIST \o <<" ">> \o path)))

\* "except Exception as e: print(LIST error)"
ls_except(c) ==
    IF c.starved THEN c
    ELSE IF Raised(c) THEN [Caught(c) EXCEPT !.report = "ls_error"]
    ELSE c

\* FTPCommands.cmd_ls
cmd_ls(c, path) ==
    IF ~check_connection(c) THEN Report(c, "not_connected")
    ELSE IF ~c.passive_mode THEN Report(c, "ls_active")
    ELSE ls_except(ls_pasv(receive_response(send_command(c, Cmd.PASV)), path))

\* FTPCommands.cmd_mget up to its loop: LIST is sent and its reply read
mget_listed(r) ==
    IF Raised(r) THEN r
    ELSE IF is_positive_preliminary(r.resp) THEN cmd_ls(r, <<>>)
    ELSE r

\* "except Exception as e: print(MGET error)"
mget_except(c) ==
    IF c.starved THEN c
    ELSE IF Raised(c) THEN [Caught(c) EXCEPT !.report = "mget_error"]
    ELSE c

cmd_mget(c) ==
    IF ~check_connection(c) THEN Report(c, "not_connected")
    ELSE mget_except(mget_listed(receive_response(send_command(c, Cmd.LIST))))

\* one pass of "for pattern in args"
mget_file(c, pattern) ==
    IF \E i \in 1..Len(pattern) : pattern[i] = "*" THEN Report(c, "wildcard")
    ELSE cmd_get(c, pattern)

\* FTPCommands.cmd_open: login follows a successful connect
open_login(conn) == IF conn.ctx.starved \/ ~conn.ret THEN conn ELSE login(conn.ctx)

cmd_open(c) == open_login(connect(c))

\* ------------------------------------------------------------------------
\* ClamAVAgent (clamav_agent.py)
\* ------------------------------------------------------------------------
\* the handle_client threads of a run: two connections, which may be served
\* at the same time
Handlers == {1, 2}

\* declared names: a plain one, and one whose temp path lies in a directory
\* that does not exist
NameA == <<"a">>
NameDir == <<"x", "/", "y">>

\* temp_dir / f"scan_{int(time.time())}_{filename}"
TempPath(t, filename) == <<t, filename>>
NoPath == <<>>
Paths == {TempPath(t, NameA) : t \in 0..MaxTime}

\* what a connection may deliver to recv(1024)
FilenameMsgs == {FILENAME_ \o NameA, FILENAME_ \o NameDir, <<"H", "I">>, TEmpty, Fail}
SizeMsgs == {SIZE_ \o IntToStr(n) : n \in 0..MaxSize}
            \cup {SIZE_ \o <<"-", "1">>, SIZE_ \o <<"x">>, <<"H", "I">>, TEmpty, Fail}

\* int(text): optional sign and digits, surrounding whitespace ignored;
\* anything else is a ValueError
ParseInt(text) ==
    LET t == Strip(text)
        signed == t # <<>> /\ Head(t) \in {"-", "+"}
        ds == IF signed THEN Tail(t) ELSE t
    IN  IF ds # <<>> /\ \A i \in 1..Len(ds) : ds[i] \in Digits
        THEN [ok |-> TRUE,
              val |-> IF signed /\ Head(t) = "-" THEN 0 - StrToInt(ds) ELSE StrToInt(ds)]
        ELSE [ok |-> FALSE, val |-> 0]

\* outcomes of subprocess.run
ScannerOutcomes == {"exit0", "exit1", "exit2", "timeout", "oserror"}

\* ClamAVAgent.test_clamav
test_clamav(outcome) == outcome = "exit0"

\* a scanner that could not be run taken for a clean file
scan_file_failure_is_clean(outcome) ==
    IF outcome \in {"exit0", "oserror"} THEN "OK"
    ELSE IF outcome = "exit1" THEN "INFECTED"
    ELSE "ERROR"

\* ClamAVAgent.scan_file: the status of the result
scan_file(outcome) ==
    IF outcome = "exit0" THEN "OK"
    ELSE IF outcome = "exit1" THEN "INFECTED"
    ELSE "ERROR"

\* nothing has been received yet
NoMsg == <<"none">>

\* io: a call on the connection's socket has raised
FreeHandler ==
    [pc |-> "free", first |-> NoMsg, second |-> NoMsg, filename |-> <<>>,
     file_size |-> 0, received |-> 0, eof |-> FALSE,
     path |-> NoPath, created |-> FALSE, result |-> "", out |-> <<>>,
     left |-> FALSE, later |-> FALSE, io |-> FALSE]

\* start() has not been called: no self-check was made, server_socket is
\* None
NotStarted == [state |-> "init", self_check |-> "none", listening |-> FALSE]

InitAgent ==
    /\ running = NotStarted
    /\ handlers = [h \in Handlers |-> FreeHandler]
    /\ temp_files = [p \in Paths |-> [exists |-> FALSE, data |-> <<>>]]
    /\ now = 0

\* start() that goes on to bind and listen whatever test_clamav returned
Start_without_self_check ==
    /\ running.state = "init"
    /\ \E outcome \in ScannerOutcomes, bound \in BOOLEAN :
         running' = [state |-> IF bound THEN "running" ELSE "failed",
                     self_check |-> outcome, listening |-> bound]
    /\ UNCHANGED <<handlers, temp_files, now>>
    /\ UNCHANGED <<sessionVars, call>>

\* ClamAVAgent.start up to the accept loop: test_clamav, then socket, bind
\* and listen, which may raise
Start ==
    /\ running.state = "init"
    /\ \E outcome \in ScannerOutcomes, bound \in BOOLEAN :
         running' = IF ~test_clamav(outcome)
                    THEN [state |-> "failed", self_check |-> outcome,
                          listening |-> FALSE]
                    ELSE [state |-> IF bound THEN "running" ELSE "failed",
                          self_check |-> outcome, listening |-> bound]
    /\ UNCHANGED <<handlers, temp_files, now>>
    /\ UNCHANGED <<sessionVars, call>>

Tick ==
    /\ now < MaxTime
    /\ now' = now + 1
    /\ UNCHANGED <<running, handlers, temp_files>>
    /\ UNCHANGED <<sessionVars, call>>

\* handle_client is over and did not end with a verdict of the scanner:
\* the protocol was violated, a call on the socket or on the temp file
\* raised, or the scanner failed or timed out
Failed(h) ==
    /\ handlers[h].pc = "closed"
    /\ handlers[h].out = <<>>
          \/ handlers[h].out[Len(handlers[h].out)] \notin {"OK", "INFECTED"}

\* the accept loop: accept() and the start of a handle_client thread (kept
\* with the handler: whether a handler had failed before it was accepted);
\* the connections are numbered in the order they are accepted
Accept(h) ==
    /\ running.state = "running"
    /\ handlers[h].pc = "free"
    /\ \A g \in Handlers : g < h => handlers[g].pc # "free"
    /\ handlers' = [handlers EXCEPT ![h].pc = "await_filename",
                                    ![h].later = \E g \in Handlers : Failed(g)]
    /\ UNCHANGED <<running, temp_files, now>>
    /\ UNCHANGED <<sessionVars, call>>

\* the accept loop ends: accept() or Thread.start() raised, "break"
AcceptFails ==
    /\ running.state = "running"
    /\ running' = [running EXCEPT !.state = "stopped"]
    /\ UNCHANGED <<handlers, temp_files, now>>
    /\ UNCHANGED <<sessionVars, call>>

\* step 1 without the check of the prefix
RecvFilename_any_prefix(h) ==
    /\ handlers[h].pc = "await_filename"
    /\ \E msg \in FilenameMsgs, sendOk \in BOOLEAN :
         handlers' =
            IF msg = Fail \/ ~sendOk
            THEN [handlers EXCEPT ![h].pc = "error", ![h].first = msg, ![h].io = TRUE]
            ELSE [handlers EXCEPT ![h].pc = "await_size", ![h].first = msg,
                                  ![h].filename = SubSeq(msg, 10, Len(msg)),
                                  ![h].out = Append(@, "READY")]
    /\ UNCHANGED <<running, temp_files, now>>
    /\ UNCHANGED <<sessionVars, call>>

\* handle_client, step 1: the FILENAME message and the first READY
RecvFilename(h) ==
    /\ handlers[h].pc = "await_filename"
    /\ \E msg \in FilenameMsgs, sendOk \in BOOLEAN :
         handlers' =
            IF msg = Fail \/ ~StartsWith(msg, FILENAME_) \/ ~sendOk
            THEN [handlers EXCEPT ![h].pc = "error", ![h].first = msg,
                                  ![h].io = msg = Fail \/ StartsWith(msg, FILENAME_)]
            ELSE [handlers EXCEPT ![h].pc = "await_size", ![h].first = msg,
                                  ![h].filename = SubSeq(msg, 10, Len(msg)),
                                  ![h].out = Append(@, "READY")]
    /\ UNCHANGED <<running, temp_files, now>>
    /\ UNCHANGED <<sessionVars, call>>

\* handle_client, step 2: the SIZE message, the second READY, and
\* open(temp_file_path, 'wb')
RecvSize(h) ==
    /\ handlers[h].pc = "await_size"
    /\ \E msg \in SizeMsgs, sendOk \in BOOLEAN :
         LET size == ParseInt(SubSeq(msg, 6, Len(msg)))
             path == TempPath(now, handlers[h].filename)
         IN  IF msg = Fail \/ ~StartsWith(msg, SIZE_) \/ ~size.ok
             THEN /\ handlers' = [handlers EXCEPT ![h].pc = "error",
                                                  ![h].second = msg,
                                                  ![h].io = msg = Fail]
                  /\ UNCHANGED temp_files
             ELSE IF ~sendOk
             THEN /\ handlers' = [handlers EXCEPT ![h].pc = "error",
                                                  ![h].second = msg,
                                                  ![h].file_size = size.val,
                                                  ![h].io = TRUE]
                  /\ UNCHANGED temp_files
             ELSE IF path \notin Paths
             THEN /\ handlers' = [handlers EXCEPT ![h].pc = "error",
                                                  ![h].second = msg,
                                                  ![h].file_size = size.val,
                                                  ![h].out = Append(@, "READY"),
                                                  ![h].path = path]
                  /\ UNCHANGED temp_files
             ELSE /\ handlers' = [handlers EXCEPT
                                    ![h].pc = IF size.val > 0 THEN "receive" ELSE "scan",
                                    ![h].second = msg,
                                    ![h].file_size = size.val,
                                    ![h].out = Append(@, "READY"),
                                    ![h].path = path,
                                    ![h].created = TRUE]
                  /\ temp_files' = [temp_files EXCEPT ![path] =
                                        [exists |-> TRUE, data |-> <<>>]]
    /\ UNCHANGED <<running, now>>
    /\ UNCHANGED <<sessionVars, call>>

\* handle_client, step 3: one pass of "while received < file_size"
RecvChunk(h) ==
    /\ handlers[h].pc = "receive"
    /\ LET me == handlers[h]
           want == IF me.file_size - me.received < ChunkSize
                   THEN me.file_size - me.received ELSE ChunkSize
       IN  \/ \E n \in 1..want :
                /\ handlers' = [handlers EXCEPT
                                  ![h].received = @ + n,
                                  ![h].pc = IF me.received + n < me.file_size
                                            THEN "receive" ELSE "scan"]
                /\ temp_files' = [temp_files EXCEPT ![me.path].data =
                                      @ \o [i \in 1..n |-> h]]
           \/ \* recv() returned b'': break
              /\ handlers' = [handlers EXCEPT ![h].pc = "scan", ![h].eof = TRUE]
              /\ UNCHANGED temp_files
           \/ \* recv() raised
              /\ handlers' = [handlers EXCEPT ![h].pc = "error", ![h].io = TRUE]
              /\ UNCHANGED temp_files
    /\ UNCHANGED <<running, now>>
    /\ UNCHANGED <<sessionVars, call>>

\* a handler that answers OK without calling scan_file
Scan_skipped(h) ==
    /\ handlers[h].pc = "scan"
    /\ handlers' = [handlers EXCEPT ![h].pc = "closed", ![h].out = Append(@, "OK")]
    /\ UNCHANGED <<running, temp_files, now>>
    /\ UNCHANGED <<sessionVars, call>>

\* handle_client, step 4: scan_file(temp_file_path)
Scan(h) ==
    /\ handlers[h].pc = "scan"
    /\ \E outcome \in ScannerOutcomes :
         /\ temp_files[handlers[h].path].exists \/ outcome \notin {"exit0", "exit1"}
         /\ handlers' = [handlers EXCEPT ![h].pc = "respond",
                                         ![h].result = scan_file(outcome)]
    /\ UNCHANGED <<running, temp_files, now>>
    /\ UNCHANGED <<sessionVars, call>>

\* a handler that takes the "except" branch after the result was sent
Respond_then_error(h) ==
    /\ handlers[h].pc = "respond"
    /\ handlers' = [handlers EXCEPT ![h].pc = "error",
                                    ![h].out = Append(@, handlers[h].result)]
    /\ UNCHANGED <<running, temp_files, now>>
    /\ UNCHANGED <<sessionVars, call>>

\* a handler whose send of the result raised and that scans again
Respond_scans_again(h) ==
    /\ handlers[h].pc = "respond"
    /\ LET me == handlers[h]
       IN  \/ /\ handlers' = [handlers EXCEPT ![h].pc = "closed",
                                              ![h].out = Append(@, me.result),
                                              ![h].left = FALSE]
              /\ temp_files' = [temp_files EXCEPT ![me.path] =
                                    [exists |-> FALSE, data |-> <<>>]]
           \/ /\ handlers' = [handlers EXCEPT ![h].pc = "scan", ![h].io = TRUE]
              /\ UNCHANGED temp_files
    /\ UNCHANGED <<running, now>>
    /\ UNCHANGED <<sessionVars, call>>

\* handle_client, step 5 and "finally": the result is sent, the temp file
\* unlinked (a failure is logged) and the connection closed; a send that
\* raises goes to the "except" branch instead
Respond(h) ==
    /\ handlers[h].pc = "respond"
    /\ LET me == handlers[h]
       IN  \/ /\ handlers' = [handlers EXCEPT ![h].pc = "closed",
                                              ![h].out = Append(@, me.result),
                                              ![h].left = FALSE]
              /\ temp_files' = [temp_files EXCEPT ![me.path] =
                                    [exists |-> FALSE, data |-> <<>>]]
           \/ /\ handlers' = [handlers EXCEPT ![h].pc = "error", ![h].io = TRUE]
              /\ UNCHANGED temp_files
    /\ UNCHANGED <<running, now>>
    /\ UNCHANGED <<sessionVars, call>>

\* an exception of handle_client that ends the accept loop as well
HandleError_stops_agent(h) ==
    /\ handlers[h].pc = "error"
    /\ \E sendOk \in BOOLEAN :
         handlers' = [handlers EXCEPT
                        ![h].pc = "closed",
                        ![h].out = IF sendOk THEN Append(@, "ERROR") ELSE @,
                        ![h].io = @ \/ ~sendOk,
                        ![h].left = handlers[h].created
                                    /\ temp_files[handlers[h].path].exists]
    /\ running' = [running EXCEPT !.state = "stopped"]
    /\ UNCHANGED <<temp_files, now>>
    /\ UNCHANGED <<sessionVars, call>>

\* handle_client, "except Exception" and "finally": an ERROR result is sent
\* (best effort) and the connection closed
HandleError(h) ==
    /\ handlers[h].pc = "error"
    /\ \E sendOk \in BOOLEAN :
         handlers' = [handlers EXCEPT
                        ![h].pc = "closed",
                        ![h].out = IF sendOk THEN Append(@, "ERROR") ELSE @,
                        ![h].io = @ \/ ~sendOk,
                        ![h].left = handlers[h].created
                                    /\ temp_files[handlers[h].path].exists]
    /\ UNCHANGED <<running, temp_files, now>>
    /\ UNCHANGED <<sessionVars, call>>

NextAgent ==
    \/ Start
    \/ Tick
    \/ \E h \in Handlers : Accept(h)
    \/ AcceptFails
    \/ \E h \in Handlers : RecvFilename(h)
    \/ \E h \in Handlers : RecvSize(h)
    \/ \E h \in Handlers : RecvChunk(h)
    \/ \E h \in Handlers : Scan(h)
    \/ \E h \in Handlers : Respond(h)
    \/ \E h \in Handlers : HandleError(h)

\* ------------------------------------------------------------------------
\* Operations and their scripts
\* ------------------------------------------------------------------------
\* an operation and its argument
Run(name, arg, script) ==
    CASE name = "connect" -> connect(Ctx(script))
      [] name = "login" -> login(Ctx(script))
      [] name = "disconnect" -> [ctx |-> disconnect(Ctx(script)), ret |-> TRUE]
      [] name = "scan" -> send_file_to_clamav(Ctx(script), arg)
      [] name = "put" -> [ctx |-> execute_command(cmd_put(Ctx(script), arg)), ret |-> TRUE]
      [] name = "get" -> [ctx |-> execute_command(cmd_get(Ctx(script), arg)), ret |-> TRUE]
      [] name = "type" -> [ctx |-> execute_command(set_transfer_mode(Ctx(script), arg)),
                           ret |-> TRUE]
      [] name = "passive" -> [ctx |-> toggle_passive_mode(Ctx(script)), ret |-> TRUE]
      [] name = "cd" -> [ctx |-> execute_command(cmd_cd(Ctx(script), arg)), ret |-> TRUE]
      [] name = "open" -> cmd_open(Ctx(script))
      [] name = "mput" -> [ctx |-> IF check_connection(Ctx(script)) THEN Ctx(script)
                                   ELSE Report(Ctx(script), "not_connected"),
                           ret |-> TRUE]
      [] name = "mput_file" -> [ctx |-> mput_file(Ctx(script), arg), ret |-> TRUE]
      [] name = "mget" -> [ctx |-> cmd_mget(Ctx(script)), ret |-> TRUE]
      [] name = "mget_file" -> [ctx |-> mget_file(Ctx(script), arg), ret |-> TRUE]

\* the runs of operation name on the scripts it consumes exactly, grown one
\* outcome at a time from the scripts that ended too early
\* a run is kept with its script first
RunOn(name, arg, script) == <<script, Run(name, arg, script)>>

Starved(frontier) == {x \in frontier : x[2].ctx.starved}

Longer(name, arg, short) ==
    UNION {{RunOn(name, arg, Append(x[1], o)) : o \in Outcomes(x[2].ctx.want)} :
             x \in short}

RECURSIVE Grow(_, _, _, _)
GrowOn(name, arg, longer, n) ==
    IF n = 0 \/ longer = {} THEN {} ELSE Grow(name, arg, longer, n - 1)

Grow(name, arg, frontier, n) ==
    {x \in frontier : ~x[2].ctx.starved}
    \cup GrowOn(name, arg, Longer(name, arg, Starved(frontier)), n)

Runs(name, arg) == Grow(name, arg, {RunOn(name, arg, <<>>)}, MaxIO)

NoArg == <<>>

\* ------------------------------------------------------------------------
\* Actions
\* ------------------------------------------------------------------------
Idle == op.name = "idle"

Init ==
    /\ connected = FALSE
    /\ logged_in = FALSE
    /\ control_socket = NoSocket
    /\ passive_mode \in BOOLEAN
    /\ transfer_mode = "binary"
    /\ current_dir = <<"/">>
    /\ sent = <<>>
    /\ op = [name |-> "idle"]
    /\ mput_todo = <<>>
    /\ mget_todo = <<>>
    /\ InitAgent
    /\ call = NoCall

\* one operation, from the prompt to its return
Exec(name, arg) ==
    /\ \E run \in Runs(name, arg) :
         LET r == run[2]
             script == run[1]
             c == r.ctx
         IN  /\ connected' = c.connected
             /\ logged_in' = c.logged_in
             /\ control_socket' = c.control_socket
             /\ passive_mode' = c.passive_mode
             /\ transfer_mode' = c.transfer_mode
             /\ current_dir' = c.current_dir
             /\ sent' = c.sent
             /\ op' = [name |-> name, arg |-> arg, ret |-> r.ret, script |-> script,
                       closed |-> c.closed, dropped |-> c.dropped,
                       calls |-> c.calls, raised |-> c.raised,
                       scan |-> c.scan, scan_msgs |-> c.scan_msgs,
                       scan_bytes |-> c.scan_bytes, data |-> c.data,
                       asked |-> c.asked, report |-> c.report,
                       replies |-> c.replies, messages |-> c.messages, exc |-> c.exc,
                       unread |-> c.unread,
                       scan_got |-> c.scan_got, scan_result |-> c.scan_result,
                       mput_asked |-> c.mput_asked, data_bytes |-> c.data_bytes,
                       local |-> c.local,
                       after |-> IF op.name \in {"mput_next", "mget_next"}
                                 THEN op.last ELSE "none",
                       was |-> [connected |-> connected, logged_in |-> logged_in,
                                control_socket |-> control_socket,
                                passive_mode |-> passive_mode,
                                transfer_mode |-> transfer_mode,
                                current_dir |-> current_dir]]

Do(name, arg) ==
    /\ Idle /\ Exec(name, arg)
    /\ UNCHANGED <<mput_todo, mget_todo>> /\ UNCHANGED <<agentVars, call>>

Connect == Do("connect", NoArg)
Login == Do("login", NoArg)
Disconnect == Do("disconnect", NoArg)
ScanFile == \E file \in LocalFiles : Do("scan", file)
CmdPut == \E file \in PutFiles : Do("put", file)
CmdGet == \E remote_file \in RemoteFiles : Do("get", remote_file)
SetTransferMode == \E mode \in {"ascii", "binary"} : Do("type", mode)
TogglePassive == Do("passive", NoArg)

\* the number of directories current_dir lies below the root
Depth(dir) == Cardinality({i \in 1..Len(dir) : dir[i] = "/" /\ i < Len(dir)})

CmdCd ==
    /\ Idle
    /\ \E directory \in Dirs :
         /\ StartsWith(directory, <<"/">>) \/ directory = <<".", ".">>
               \/ Depth(current_dir) < MaxDepth
         /\ Do("cd", directory)
CmdOpen == Do("open", NoArg)

\* FTPCommands.cmd_mput up to its loops
CmdMput ==
    /\ Idle
    /\ \E args \in MputArgs :
         /\ Exec("mput", args)
         /\ mput_todo' = IF check_connection(Ctx(<<>>)) THEN args ELSE <<>>
    /\ UNCHANGED mget_todo
    /\ UNCHANGED <<agentVars, call>>

\* the pattern loop moves on: a pattern without files left is done
MputPattern ==
    /\ mput_todo # <<>> /\ Head(mput_todo) = <<>>
    /\ op.name \in {"mput", "mput_next"}
    /\ mput_todo' = Tail(mput_todo)
    /\ UNCHANGED <<connected, logged_in, control_socket, passive_mode, transfer_mode,
                   current_dir,
                   sent, op, mget_todo>>
    /\ UNCHANGED <<agentVars, call>>

\* what is kept of the file just done when the loop moves on
Outcome(report) == IF report \in {"uploaded", "downloaded"} THEN "done" ELSE "not_done"

\* the file loop moves on: the record of the file just done is dropped
MputLoop ==
    /\ op.name = "mput_file"
    /\ op' = [name |-> "mput_next", last |-> Outcome(op.report)]
    /\ sent' = <<>>
    /\ UNCHANGED <<connected, logged_in, control_socket, passive_mode, transfer_mode,
                   current_dir,
                   mput_todo, mget_todo>>
    /\ UNCHANGED <<agentVars, call>>

\* one file of the pattern at hand; an exception ends the pattern
MputFile ==
    /\ mput_todo # <<>> /\ Head(mput_todo) # <<>>
    /\ op.name \in {"mput", "mput_next"}
    /\ Exec("mput_file", Head(Head(mput_todo)))
    /\ mput_todo' = IF op'.exc # "none"
                    THEN <<<<>>>> \o Tail(mput_todo)
                    ELSE <<Tail(Head(mput_todo))>> \o Tail(mput_todo)
    /\ UNCHANGED mget_todo
    /\ UNCHANGED <<agentVars, call>>

\* FTPCommands.cmd_mget up to its loop; an exception ends the command
CmdMget ==
    /\ Idle
    /\ \E args \in MgetArgs :
         /\ Exec("mget", args)
         /\ mget_todo' = IF check_connection(Ctx(<<>>)) /\ op'.report # "mget_error"
                         THEN args ELSE <<>>
    /\ UNCHANGED mput_todo
    /\ UNCHANGED <<agentVars, call>>

\* one pattern; an exception that leaves cmd_get would end the command
MgetFile ==
    /\ mget_todo # <<>>
    /\ op.name \in {"mget", "mget_next"}
    /\ Exec("mget_file", Head(mget_todo))
    /\ mget_todo' = IF op'.exc # "none" THEN <<>> ELSE Tail(mget_todo)
    /\ UNCHANGED mput_todo
    /\ UNCHANGED <<agentVars, call>>

\* the pattern loop moves on: the record of the file just done is dropped
MgetLoop ==
    /\ op.name = "mget_file"
    /\ op' = [name |-> "mget_next", last |-> Outcome(op.report)]
    /\ sent' = <<>>
    /\ UNCHANGED <<connected, logged_in, control_socket, passive_mode, transfer_mode,
                   current_dir,
                   mput_todo, mget_todo>>
    /\ UNCHANGED <<agentVars, call>>

\* back at the prompt: the record of the last operation is dropped
Prompt ==
    /\ ~Idle
    /\ op.name # "mput_file" /\ mput_todo = <<>>
    /\ op.name # "mget_file" /\ mget_todo = <<>>
    /\ op' = [name |-> "idle"]
    /\ sent' = <<>>
    /\ UNCHANGED <<connected, logged_in, control_socket, passive_mode, transfer_mode,
                   current_dir,
                   mput_todo, mget_todo>>
    /\ UNCHANGED <<agentVars, call>>

Next ==
    \/ Connect
    \/ Login
    \/ Disconnect
    \/ ScanFile
    \/ CmdPut
    \/ CmdGet
    \/ SetTransferMode
    \/ TogglePassive
    \/ CmdCd
    \/ CmdOpen
    \/ CmdMput
    \/ MputPattern
    \/ MputFile
    \/ MputLoop
    \/ CmdMget
    \/ MgetFile
    \/ MgetLoop
    \/ Prompt

\* the client
Spec == Init /\ [][Next]_vars

\* the scan agent, beside a client that has not been started
AgentAlone == Init /\ passive_mode = TRUE

SpecAgent == AgentAlone /\ [][NextAgent]_vars

\* ------------------------------------------------------------------------
\* The functions of network_utils.py and scan_file, called on their own
\* ------------------------------------------------------------------------
\* reply texts: every three-digit prefix, and texts without one
CodedLines == {<<a, b, c, " ", "o", "k">> : a \in Digits, b \in Digits, c \in Digits}
OtherLines ==
    {TEmpty, <<"o", "k">>, <<"2", "2">>, <<"2", "2", "0">>, <<"2", "a", "0", " ", "x">>,
     <<"a", "2", "2", "0">>, <<"2", "2", " ", "0">>, <<"-", "2", "0", " ", "x">>,
     <<"2", "2", "0", "0", " ", "x">>, <<" ", "2", "2", "0", " ", "x", "\r", "\n">>,
     <<"\r", "\n">>, Reply.T230, Reply.Malformed}
ReplyLines == CodedLines \cup OtherLines

\* hosts and ports given to create_port_command
OctetTexts == {<<"0">>, <<"1">>, <<"1", "0", "0">>, <<"1", "9", "2">>, <<"2", "5", "5">>}
DottedHosts == {Join(<<a, b, c, d>>, ".") : a \in OctetTexts, b \in OctetTexts,
                                             c \in OctetTexts, d \in OctetTexts}
TestHost == <<"1", "9", "2", ".", "1", "6", "8", ".", "1", ".", "1", "0", "0">>
OtherHosts ==
    {TEmpty, <<"1", ".", "2", ".", "3">>, <<"1", ".", "2", ".", "3", ".", "4", ".", "5">>,
     <<"l", "o", "c", "a", "l", "h", "o", "s", "t">>,
     <<"0", "1", ".", "2", ".", "3", ".", "4">>, <<"a", ".", "b", ".", "c", ".", "d">>}
Hosts == DottedHosts \cup OtherHosts \cup {TestHost}
Ports == {0, 1, 255, 256, 257, 5141, 65280, 65535, 65536}

\* replies given to parse_pasv_response
PasvPrefix == <<"2", "2", "7", " ", "E", " ">>
TestSextuple == <<"(", "1", "9", "2", ",", "1", "6", "8", ",", "1", ",", "1", "0", "0",
                  ",", "2", "0", ",", "2", "1", ")">>
PasvReplies ==
    {TestSextuple, PasvPrefix \o TestSextuple, Reply.T227, PasvPrefix,
     <<"(", "1", ",", "2", ",", "3", ",", "4", ",", "5", ")">>,
     <<"1", ",", "2", ",", "3", ",", "4", ",", "5", ",", "6">>,
     <<"(", "1", ",", "2", ",", "3", ",", "4", ",", "5", ",", "6">>,
     <<"(", "1", ",", "2", ",", "3", ",", "4", ",", "5", ",", "x", ")">>,
     <<"(", "x", ")", " ", "(", "1", ",", "2", ",", "3", ",", "4", ",", "5", ",", "6", ")">>}

InitUtil ==
    /\ connected = FALSE
    /\ logged_in = FALSE
    /\ control_socket = NoSocket
    /\ passive_mode = TRUE
    /\ transfer_mode = "binary"
    /\ current_dir = <<"/">>
    /\ sent = <<>>
    /\ op = [name |-> "idle"]
    /\ mput_todo = <<>>
    /\ mget_todo = <<>>
    /\ InitAgent
    /\ call \in {[NoCall EXCEPT !.fn = "FTPResponse", !.text = t] : t \in ReplyLines}
          \cup {[NoCall EXCEPT !.fn = "parse_pasv_response", !.text = t] :
                   t \in PasvReplies}
          \cup {[NoCall EXCEPT !.fn = "create_port_command", !.host = h, !.port = p] :
                   h \in Hosts, p \in Ports}
          \cup {[NoCall EXCEPT !.fn = "scan_file", !.outcome = o] :
                   o \in ScannerOutcomes}

Returned(value) ==
    /\ call' = [call EXCEPT !.done = TRUE, !.ret = value]
    /\ UNCHANGED <<sessionVars, agentVars>>

\* FTPResponse(response_text)
Classify ==
    /\ call.fn = "FTPResponse" /\ ~call.done
    /\ Returned(FTPResponse(call.text))

\* NetworkUtils.parse_pasv_response(response)
ParsePasv ==
    /\ call.fn = "parse_pasv_response" /\ ~call.done
    /\ Returned(parse_pasv_response(call.text))

\* NetworkUtils.create_port_command(host, port)
CreatePort ==
    /\ call.fn = "create_port_command" /\ ~call.done
    /\ Returned(create_port_command(call.host, call.port))

\* the six numbers of a PORT command, as a server writes them in its reply
\* to PASV
PasvReplyOf(port_cmd) ==
    PasvPrefix \o <<"(">> \o SubSeq(port_cmd, Len(Cmd.PORT) + 1, Len(port_cmd)) \o <<")">>

\* parse_pasv_response of the address create_port_command encoded
ParseEncoded ==
    /\ call.fn = "create_port_command" /\ call.done /\ call.ret.ok
    /\ call' = [call EXCEPT !.fn = "parse_pasv_response",
                            !.text = PasvReplyOf(call.ret.cmd),
                            !.done = FALSE, !.ret = <<>>]
    /\ UNCHANGED <<sessionVars, agentVars>>

\* ClamAVAgent.scan_file(file_path)
ScanOutcome ==
    /\ call.fn = "scan_file" /\ ~call.done
    /\ Returned(scan_file(call.outcome))

NextUtil ==
    \/ Classify
    \/ ParsePasv
    \/ CreatePort
    \/ ParseEncoded
    \/ ScanOutcome

\* the parsing and encoding functions
SpecUtil == InitUtil /\ [][NextUtil]_vars

\* ------------------------------------------------------------------------
\* Properties of the upload gate (ftp_commands.py, cmd_put)
\* ------------------------------------------------------------------------
\* the operation at hand is an upload attempt: put, or one file of mput
Upload == op.name \in {"put", "mput_file"}

\* the status of the scan result the upload got ("" when it has none)
ScanStatus ==
    IF HasKey(op.scan_result, "status") THEN op.scan_result.items["status"] ELSE ""

\* the upload caused no traffic: no command was passed to send_command,
\* nothing was written to the control socket, no data socket was touched
NoTraffic == op.calls = <<>> /\ sent = <<>> /\ op.data = <<>>

\* the answers that are an explicit yes
Yes == {<<"y">>, <<"Y">>}

\* the operator was asked "Continue upload without scan?" and said yes
OperatorSaidYes == op.asked # <<>> /\ op.asked[Len(op.asked)] \in Yes

\* C1: an upload attempt (put, or a file of mput) whose scan result has
\* status INFECTED sends no Cmd.PASV, PORT or STOR, touches no data socket and
\* writes nothing to the control socket
C1_InfectedNeverUploaded ==
    (Upload /\ ScanStatus = "INFECTED") => NoTraffic

C1_Witness ==
    Upload /\ ScanStatus = "INFECTED" /\ op.report = "blocked" /\ NoTraffic

\* C2: an upload reaches the negotiation of the data channel only when the
\* status of the scan result is exactly OK, or is ERROR and the operator
\* confirmed; a missing or unrecognised status is never taken for clean
C2_UploadOnlyWhenCleanOrConfirmed ==
    (Upload /\ ~NoTraffic) =>
        \/ ScanStatus = "OK"
        \/ ScanStatus = "ERROR" /\ OperatorSaidYes

\* C3: with a scan result of status ERROR the upload goes ahead only on an
\* explicit yes; on every other answer, the empty one included, no data
\* channel is opened and no STOR is sent
C3_ErrorNeedsExplicitYes ==
    (Upload /\ ScanStatus = "ERROR" /\ ~OperatorSaidYes) => NoTraffic

C3_Witness ==
    /\ Upload /\ ScanStatus = "ERROR"
    /\ op.asked = <<TEmpty>>
    /\ op.report = "cancelled" /\ NoTraffic

\* ------------------------------------------------------------------------
\* Properties of the scan-gateway client (network_utils.py)
\* ------------------------------------------------------------------------
\* the calls of a scan and the outcomes they had, call by call
ScanSteps == {i \in 1..Len(op.scan) : i <= Len(op.script)}

\* the status of the result send_file_to_clamav returned ("" when it has none)
RetStatus == IF HasKey(op.ret, "status") THEN op.ret.items["status"] ELSE ""

\* a reply to FILENAME or to SIZE was not exactly READY
BadHandshake ==
    \E i \in ScanSteps : op.scan[i] = "recv" /\ op.script[i] # READY

\* connect(), send() or recv() raised
TransportFailed == \E i \in ScanSteps : op.script[i] = Fail

\* the text of the result names the status INFECTED
SaysInfected(text) ==
    \E k \in 1..(Len(text) - 1) : text[k] = "status" /\ text[k + 1] = "INFECTED"

\* the texts that are no JSON
Unparsable == {TEmpty, Json.Truncated}

\* no parsable result arrived
NoResultArrived ==
    \A i \in ScanSteps : op.scan[i] = "recv_result" => op.script[i] \in Unparsable \cup {Fail}

\* C4: the scan-gateway client never raises; it returns the status ERROR
\* when a reply to FILENAME or SIZE is not exactly READY, when the
\* connection cannot be made or fails, and when no parsable result arrives;
\* it returns INFECTED only when the agent's JSON result carries that status
C4_GatewayFailsToError ==
    op.name = "scan" =>
        /\ op.exc = "none"
        /\ (BadHandshake \/ TransportFailed \/ NoResultArrived) => RetStatus = "ERROR"
        /\ RetStatus = "INFECTED" =>
              \E i \in ScanSteps : op.scan[i] = "recv_result" /\ SaysInfected(op.script[i])

C4_Witness ==
    /\ op.name = "scan"
    /\ \E i \in ScanSteps : op.scan[i] = "recv" /\ op.script[i] \notin {READY, Fail}
    /\ RetStatus = "ERROR"

\* ------------------------------------------------------------------------
\* Properties of the scan agent (clamav_agent.py)
\* ------------------------------------------------------------------------
\* C5: once a handler has closed its connection, the temp scan file it
\* created no longer exists, whatever the path it took to the close
C5_TempFileGoneWhenClosed ==
    \A h \in Handlers : handlers[h].pc = "closed" => ~handlers[h].left

\* ------------------------------------------------------------------------
\* Properties of the session (ftp_client.py)
\* ------------------------------------------------------------------------
\* C6: logged_in implies connected in every state, and after disconnect
\* both are false
C6_LoggedInImpliesConnected ==
    /\ logged_in => connected
    /\ op.name = "disconnect" => ~connected /\ ~logged_in

C6_Witness ==
    op.name = "disconnect" /\ op.was.connected /\ op.was.logged_in /\ ~connected

\* the code of the greeting connect read is 220
Greeting220 == Len(op.script) = 2 /\ op.script[1] = Ok /\ op.script[2] = Reply.T220

\* C7: connect reports success only for a greeting of code 220; on any
\* other greeting, a timeout or a connection error it reports failure and
\* connected is false when it returns, whatever it was before
C7_ConnectFailureLeavesDisconnected ==
    op.name = "connect" =>
        /\ op.ret <=> Greeting220
        /\ ~op.ret => ~connected

\* the commands login passed to send_command that start with verb
Commands(verb) ==
    {i \in 1..Len(op.calls) : StartsWith(op.calls[i].command, verb)}

\* the code of the last reply of the exchange is 2xx
LastReplyPositive ==
    op.replies # <<>> /\ op.replies[Len(op.replies)] \in 200..299

\* C8: login sets logged_in only when the last reply of the exchange is
\* 2xx; PASS is sent only after a 331 to USER; USER is sent a second time
\* only after a 503, so that a call sends at most two USER and one PASS; a
\* final reply that is not positive, or malformed, leaves logged_in false
C8_LoginOnlyOnPositiveReply ==
    op.name = "login" =>
        /\ (logged_in /\ ~op.was.logged_in) => LastReplyPositive
        /\ op.ret => LastReplyPositive
        /\ \A i \in Commands(Cmd.PASS) :
              /\ i > 1 /\ StartsWith(op.calls[i - 1].command, Cmd.USER)
              /\ \E k \in 1..Len(op.replies) :
                    op.replies[k] = 331 /\ k >= Len(op.replies) - 1
        /\ Cardinality(Commands(Cmd.USER)) <= 2
        /\ Cardinality(Commands(Cmd.PASS)) <= 1
        /\ Cardinality(Commands(Cmd.USER)) = 2 => \E k \in 1..Len(op.replies) : op.replies[k] = 503
        /\ ~LastReplyPositive => ~logged_in

\* C9: disconnect of a connected session always closes the control socket
\* and resets the session state, logged in or not, whether Cmd.QUIT and the
\* reading of its reply work or fail; Cmd.QUIT is sent only when logged in, and
\* what it raises is swallowed
C9_DisconnectAlwaysCloses ==
    (op.name = "disconnect" /\ op.was.connected) =>
        /\ op.closed = 1
        /\ ~connected /\ ~logged_in /\ control_socket = NoSocket
        /\ Commands(Cmd.QUIT) # {} => op.was.logged_in
        /\ op.exc = "none"

\* what the calls of send_command that went through wrote, in order
RECURSIVE Written(_)
Written(calls) ==
    IF calls = <<>> THEN <<>>
    ELSE (IF Head(calls).outcome = "sent"
          THEN <<Head(calls).command \o <<"\r", "\n">> >> ELSE <<>>)
         \o Written(Tail(calls))

\* the operation at hand keeps a record of its calls
Logged == op.name \notin {"idle", "mput_next", "mget_next"}

ThreeDigits(text) ==
    /\ Len(FirstLine(Strip(text))) >= 3
    /\ \A i \in 1..3 : FirstLine(Strip(text))[i] \in Digits

\* the classification predicates that are true of a response
Classes(r) ==
    {k \in {"preliminary", "positive", "intermediate", "error"} :
        \/ k = "preliminary" /\ is_positive_preliminary(r)
        \/ k = "positive" /\ is_positive(r)
        \/ k = "intermediate" /\ is_positive_intermediate(r)
        \/ k = "error" /\ is_error(r)}

Classified == call.fn = "FTPResponse" /\ call.done

\* C11: for every reply line that begins with three digits exactly one of
\* the four classification predicates (preliminary, positive, intermediate,
\* error) is true; for a line without a leading three-digit code the code
\* is absent and no predicate is true
C11_ExactlyOneClass ==
    Classified =>
        IF ThreeDigits(call.text)
        THEN Cardinality(Classes(call.ret)) = 1
        ELSE call.ret.code = NoCode /\ Classes(call.ret) = {}

\* ------------------------------------------------------------------------
\* Properties of the address encoding (network_utils.py)
\* ------------------------------------------------------------------------
\* a decimal number of 0..255 as it is normally written
Octet(part) ==
    /\ part # <<>>
    /\ \A i \in 1..Len(part) : part[i] \in Digits
    /\ Len(part) = 1 \/ Head(part) # "0"
    /\ StrToInt(part) <= 255

ValidIPv4(host) ==
    /\ Len(Split(host, ".")) = 4
    /\ \A i \in 1..4 : Octet(Split(host, ".")[i])

Parsed == call.fn = "parse_pasv_response" /\ call.done

\* C12: for every valid IPv4 address and port of 0..65535, parsing the
\* passive-mode sextuple built from the encoding of (ip, port) returns
\* exactly (ip, port); "(192,168,1,100,20,21)" parses to
\* ("192.168.1.100", 5141)
C12_RoundTrip ==
    /\ Parsed /\ ValidIPv4(call.host) /\ call.port \in 0..65535 =>
          call.ret = [found |-> TRUE, ip |-> call.host, port |-> call.port]
    /\ Parsed /\ call.text = TestSextuple =>
          call.ret = [found |-> TRUE, ip |-> TestHost, port |-> 5141]

C12_Witness ==
    /\ Parsed /\ call.host = TestHost /\ call.port = 5141
    /\ call.text = PasvPrefix \o TestSextuple
    /\ call.ret.found /\ call.ret.port = 5141

Created == call.fn = "create_port_command" /\ call.done

\* the comma-separated fields that follow "PORT "
PortFields(cmd) == Split(SubSeq(cmd, Len(Cmd.PORT) + 1, Len(cmd)), ",")

TestPortCommand ==
    <<"P", "O", "R", "T", " ", "1", "9", "2", ",", "1", "6", "8", ",", "1", ",",
      "1", "0", "0", ",", "2", "0", ",", "2", "1">>

\* C13: for every host of four dot-separated parts a.b.c.d and every port
\* of 0..65535, create_port_command returns "PORT a,b,c,d,p1,p2" with
\* p1 = port div 256 and p2 = port mod 256, both in 0..255 and
\* p1*256 + p2 = port; a host that does not have exactly four parts is
\* rejected with an error
C13_PortCommand ==
    /\ Created /\ Len(Split(call.host, ".")) = 4 /\ call.port \in 0..65535 =>
          /\ call.ret.ok
          /\ StartsWith(call.ret.cmd, <<"P", "O", "R", "T", " ">>)
          /\ Len(PortFields(call.ret.cmd)) = 6
          /\ SubSeq(PortFields(call.ret.cmd), 1, 4) = Split(call.host, ".")
          /\ PortFields(call.ret.cmd)[5] = IntToStr(call.port \div 256)
          /\ PortFields(call.ret.cmd)[6] = IntToStr(call.port % 256)
          /\ StrToInt(PortFields(call.ret.cmd)[5]) \in 0..255
          /\ StrToInt(PortFields(call.ret.cmd)[6]) \in 0..255
          /\ StrToInt(PortFields(call.ret.cmd)[5]) * 256
                + StrToInt(PortFields(call.ret.cmd)[6]) = call.port
    /\ Created /\ Len(Split(call.host, ".")) # 4 => ~call.ret.ok
    /\ Created /\ call.host = TestHost /\ call.port = 5141 =>
          call.ret.cmd = TestPortCommand

C13_Witness ==
    /\ Created /\ call.host = TestHost /\ call.port = 65535
    /\ call.ret.ok /\ PortFields(call.ret.cmd)[5] = <<"2", "5", "5">>

\* ------------------------------------------------------------------------
\* Properties of the agent's handshake and start (clamav_agent.py)
\* ------------------------------------------------------------------------
\* the connection delivered a first message that does not start with
\* FILENAME: / a second one that does not start with SIZE:
BadFirst(h) ==
    /\ handlers[h].first \notin {NoMsg, Fail}
    /\ ~StartsWith(handlers[h].first, <<"F", "I", "L", "E", "N", "A", "M", "E", ":">>)

BadSecond(h) ==
    /\ handlers[h].second \notin {NoMsg, Fail}
    /\ ~StartsWith(handlers[h].second, <<"S", "I", "Z", "E", ":">>)

\* C14: when the first message on a connection does not start with
\* FILENAME:, or the second does not start with SIZE:, the handler sends an
\* ERROR result (best effort) and closes the connection, without sending
\* any further READY, without creating a temp file and without invoking
\* the scanner
C14_BadPrefixClosesWithError ==
    \A h \in Handlers :
        /\ BadFirst(h) =>
              /\ handlers[h].pc \in {"error", "closed"}
              /\ handlers[h].pc = "error" => handlers[h].out = <<>>
              /\ handlers[h].out \in {<<>>, <<"ERROR">>}
              /\ handlers[h].second = NoMsg
              /\ ~handlers[h].created /\ handlers[h].path = NoPath
              /\ handlers[h].result = ""
        /\ BadSecond(h) =>
              /\ handlers[h].pc \in {"error", "closed"}
              /\ handlers[h].pc = "error" => handlers[h].out = <<"READY">>
              /\ handlers[h].out \in {<<"READY">>, <<"READY", "ERROR">>}
              /\ ~handlers[h].created /\ handlers[h].path = NoPath
              /\ handlers[h].result = ""

C14_Witness ==
    \E h \in Handlers :
        /\ BadSecond(h) /\ handlers[h].pc = "closed"
        /\ handlers[h].out = <<"READY", "ERROR">>
        /\ \A p \in Paths : ~temp_files[p].exists

\* the bytes a handler wrote: its own mark, once per byte received
OwnBytes(h) == [i \in 1..handlers[h].received |-> h]

\* the handler has gone on from receiving to the scan
PastReceive(h) == handlers[h].pc \in {"scan", "respond"}

\* C15: while receiving the payload the agent never reads more than the
\* declared byte count; it goes on from RECEIVE_PAYLOAD only when the
\* received count equals the declared count or the peer closed the
\* connection early, and in the early-close case exactly the bytes received
\* are what is scanned
C15_PayloadReceivedAsDeclared ==
    \A h \in Handlers :
        /\ handlers[h].received > 0 => handlers[h].received <= handlers[h].file_size
        /\ PastReceive(h) =>
              handlers[h].received = handlers[h].file_size \/ handlers[h].eof
        /\ handlers[h].pc = "scan" /\ handlers[h].eof =>
              /\ temp_files[handlers[h].path].exists
              /\ temp_files[handlers[h].path].data = OwnBytes(h)

Scanned == call.fn = "scan_file" /\ call.done

\* C16: scan_file maps every scanner outcome to exactly one result: exit
\* code 0 gives OK, exit code 1 gives INFECTED, any other exit code, a
\* timeout or a failure to run the scanner gives ERROR; no outcome other
\* than exit code 0 yields OK
C16_ScanFileMapping ==
    Scanned =>
        /\ call.ret \in {"OK", "INFECTED", "ERROR"}
        /\ call.outcome = "exit0" => call.ret = "OK"
        /\ call.outcome = "exit1" => call.ret = "INFECTED"
        /\ call.outcome \in {"exit2", "timeout", "oserror"} => call.ret = "ERROR"
        /\ call.ret = "OK" => call.outcome = "exit0"

C16_Witness == Scanned /\ call.outcome = "oserror" /\ call.ret = "ERROR"

\* the self-check of start() was made and failed
SelfCheckFailed == running.self_check \in {"exit1", "exit2", "timeout", "oserror"}

\* C17: if the startup self-check of the scanning engine fails (non-zero
\* exit, not invokable, or timeout), start returns failure without binding
\* or listening and no connection is ever accepted or handled
C17_NoStartWithoutScanner ==
    SelfCheckFailed =>
        /\ running.state = "failed"
        /\ ~running.listening
        /\ \A h \in Handlers : handlers[h] = FreeHandler
        /\ \A p \in Paths : ~temp_files[p].exists

C17_Witness ==
    /\ running.self_check = "timeout"
    /\ running.state = "failed" /\ ~running.listening

\* ------------------------------------------------------------------------
\* Properties of the download (ftp_commands.py, cmd_get)
\* ------------------------------------------------------------------------
\* the positions of a call in the log of the data calls
DataAt(what) == {i \in 1..Len(op.data) : op.data[i] = what}

\* the replies cmd_get itself had read before data call i: the reply to
\* RETR is the first, the completion reply the second
RepliesBefore(i) == Cardinality({k \in DataAt("reply") : k < i})

OwnReplies == Cardinality(DataAt("reply"))

\* the code of the reply to RETR and of the completion reply
RetrCode == op.replies[Len(op.replies) - OwnReplies + 1]

CompletionCode == op.replies[Len(op.replies)]

Download == op.name = "get"

\* C18: in a download, bytes are read from the data socket and written to
\* the local file only after the reply to RETR was preliminary-positive
\* (1xx); the download is reported successful only if, after the peer closed
\* the data socket, the completion reply read from the control channel is
\* positive (2xx)
C18_DownloadOrder ==
    Download =>
        /\ \A i \in DataAt("accept") \cup DataAt("open") \cup DataAt("recv")
                    \cup DataAt("write") :
              RepliesBefore(i) = 1 /\ RetrCode \in 100..199
        /\ op.local.exists \/ op.local.size > 0 => DataAt("open") # {}
        /\ op.report = "downloaded" =>
              /\ OwnReplies = 2 /\ CompletionCode \in 200..299
              /\ \E i \in DataAt("eof") :
                    RepliesBefore(i) = 1 /\ \E k \in DataAt("reply") : k > i
              /\ op.local.exists /\ op.local.size = Cardinality(DataAt("write"))

C18_Witness ==
    /\ Download /\ op.report = "downloaded"
    /\ op.local.size = 2 /\ ~op.was.passive_mode

\* the local file was created by this download
LocalCreated == Download /\ DataAt("open") # {}

\* C19: whenever a download fails after the local file was created or
\* partly written (data-socket error mid-stream, non-positive completion
\* reply, or a transport error while reading the completion reply), the
\* partial local file does not exist when the operation returns
C19_PartialFileRemoved ==
    LocalCreated /\ op.report # "downloaded" => ~op.local.exists

\* open_data_connection returned a socket: the RETR command was issued
SocketObtained ==
    Download /\ \E i \in 1..Len(op.calls) : StartsWith(op.calls[i].command, Cmd.RETR)

\* close() calls on the socket open_data_connection returned: the one that
\* connected in passive mode, the listening one in active mode
ObtainedClosed ==
    Cardinality(DataAt(IF op.was.passive_mode THEN "close" ELSE "close_listen"))

\* C20: in every download attempt in which a data socket was obtained, that
\* socket is closed exactly once before the operation returns, on every
\* outcome: success, RETR rejected, failed transfer, and an exception
\* raised while sending RETR or reading a reply
C20_DataSocketClosedOnce ==
    SocketObtained => ObtainedClosed = 1

\* ------------------------------------------------------------------------
\* Properties of the upload (ftp_commands.py, cmd_put and cmd_mput)
\* ------------------------------------------------------------------------
\* the session was connected and logged in when the operation began
InSession == op.was.connected /\ op.was.logged_in

\* C21: an upload whose local source file does not exist fails with a
\* file-not-found report before any scan request is made and before any
\* data-channel or STOR command is sent (in a session that is not connected
\* and logged in the command is turned away as every command is)
C21_MissingFileNotUploaded ==
    op.name = "put" /\ ~op.arg.exists =>
        /\ op.report = IF InSession THEN "not_found" ELSE "not_connected"
        /\ op.scan = <<>> /\ op.scan_msgs = <<>> /\ op.asked = <<>>
        /\ NoTraffic
        /\ op.script = <<>>

C21_Witness ==
    /\ op.name = "put" /\ ~op.arg.exists /\ InSession
    /\ op.report = "not_found" /\ op.scan = <<>> /\ NoTraffic

\* the data channel was negotiated before data call i: connected in passive
\* mode, bound and listening with a positive reply to PORT in active mode
Negotiated(i) ==
    \E k \in DataAt(IF op.was.passive_mode THEN "connect" ELSE "listen") : k < i

\* the steps of an upload in their order: negotiation, STOR, its reply, the
\* file bytes after a 1xx reply only, close(), the completion reply
UploadSteps ==
    /\ \A i \in DataAt("command") : Negotiated(i)
    /\ \A i \in DataAt("reply") : \E k \in DataAt("command") : k < i
    /\ \A i \in DataAt("send") : RepliesBefore(i) = 1 /\ RetrCode \in 100..199
    /\ \A i \in DataAt("close") :
          RepliesBefore(i) = 1 /\ \A k \in DataAt("send") : k < i
    /\ \A i \in DataAt("reply") :
          RepliesBefore(i) = 1 => \E k \in DataAt("close") : k < i
    /\ Cardinality(DataAt("command")) <= 1 /\ OwnReplies <= 2

\* the file was streamed: every byte of it went onto the data socket
Streamed == op.data_bytes = op.arg.size

\* C22: in an authorised upload the steps occur in this order and none is
\* skipped: data channel negotiated, STOR sent, preliminary-positive (1xx)
\* reply received, file bytes streamed, data socket closed, completion reply
\* read; no file byte is sent unless the reply to STOR was 1xx, and the
\* upload is reported successful only if every byte was sent and the
\* completion reply is positive (2xx)
C22_UploadOrder ==
    Upload =>
        /\ UploadSteps
        /\ op.report = "uploaded" =>
              /\ OwnReplies = 2 /\ CompletionCode \in 200..299
              /\ DataAt("close") # {}
              /\ Streamed

\* the files of the batch still to do once the file at hand is done
MputRest == <<Tail(Head(mput_todo))>> \o Tail(mput_todo)

\* the operation sent no command but those of its own transfer: PASV or
\* PORT, and STOR or RETR of the file it was called for
OwnCommands ==
    \A i \in 1..Len(op.calls) :
        \/ op.calls[i].command = Cmd.PASV
        \/ StartsWith(op.calls[i].command, Cmd.PORT)
        \/ op.name = "mput_file" /\ op.calls[i].command = Cmd.STOR \o Basename(op.arg.name)
        \/ op.name = "mget_file" /\ op.calls[i].command = Cmd.RETR \o op.arg

\* the file was uploaded after a scan request of its own: the agent was
\* called, and the name announced to it was this file's
OwnScan ==
    /\ op.scan # <<>>
    /\ op.scan_msgs # <<>> => op.scan_msgs[1] = FILENAME_ \o Basename(op.arg.name)
    /\ Cardinality(Commands(Cmd.STOR)) = 1

\* one file of a batch was done
BatchStep ==
    /\ op'.name = "mput_file" /\ op'.exc # "EOFError" =>
          /\ op'.arg = Head(Head(mput_todo)) /\ mput_todo' = MputRest
          /\ OwnCommands'
          /\ op'.report = "uploaded" => OwnScan'
    /\ op'.name = "mget_file" =>
          /\ op'.arg = Head(mget_todo) /\ mget_todo' = Tail(mget_todo)
          /\ OwnCommands'
          /\ op'.report = "downloaded" => Cardinality(Commands(Cmd.RETR))' = 1

Active(h) == handlers[h].created /\ handlers[h].pc \in {"receive", "scan", "respond", "error"}

\* C24: under any interleaving of concurrently active handlers each handler
\* owns its temp scan file exclusively: no two active handlers use the same
\* temp-file path, and the bytes in the temp file of an active handler were
\* written by that handler alone
C24_TempFileOwned ==
    /\ \A h1, h2 \in Handlers :
          h1 # h2 /\ Active(h1) /\ Active(h2) => handlers[h1].path # handlers[h2].path
    /\ \A h \in Handlers :
          Active(h) =>
              \A i \in 1..Len(temp_files[handlers[h].path].data) :
                  temp_files[handlers[h].path].data[i] = h

\* ------------------------------------------------------------------------
\* Properties of failures (clamav_agent.py, start and handle_client;
\* ftp_commands.py, execute_command)
\* ------------------------------------------------------------------------
\* a step of a handle_client thread
HandlerStep == \E h \in Handlers : handlers[h].pc # "free" /\ handlers'[h] # handlers[h]

\* the accept loop is running and can take a connection
Accepting ==
    (\E h \in Handlers : handlers[h].pc = "free") => \E h \in Handlers : ENABLED Accept(h)

CommandReturns == op.name \in {"put", "get", "type"} => op.exc = "none"

\* ------------------------------------------------------------------------
\* Properties of the data-channel negotiation (ftp_client.py,
\* open_data_connection)
\* ------------------------------------------------------------------------
\* a transfer: put, get, or a file of mput or mget
Transfer == op.name \in {"put", "mput_file", "get", "mget_file"}

\* the transfer sent PASV and read a positive reply to it that holds no
\* parenthesised sextuple of integers (the reply to PASV is the first reply
\* a transfer reads)
PasvWithoutAddress ==
    /\ Transfer /\ op.was.passive_mode
    /\ Commands(Cmd.PASV) # {} /\ op.replies # <<>>
    /\ op.replies[1] \in 200..299
    /\ ~parse_pasv_response(op.messages[1]).found

\* C26: in passive mode, when the positive PASV reply contains no
\* parenthesised sextuple of six comma-separated integers, negotiation fails
\* hard: no data connection is attempted, no fallback address or mode is
\* used, and the pending RETR or STOR command is never sent
C26_PasvParseFailsHard ==
    PasvWithoutAddress =>
        /\ op.data = <<>>
        /\ Commands(Cmd.PORT) = {} /\ Commands(Cmd.STOR) = {} /\ Commands(Cmd.RETR) = {}
        /\ Len(op.calls) = 1 /\ Len(op.replies) = 1
        /\ op.report \in {"put_error", "get_error"}
        /\ passive_mode

C26_Witness ==
    /\ PasvWithoutAddress /\ op.name = "put"
    /\ op.messages[1] = SubSeq(Reply.T227Short, 5, Len(Reply.T227Short))
    /\ op.report = "put_error" /\ op.data = <<>>

\* ------------------------------------------------------------------------
\* Properties of malformed replies (network_utils.py, FTPResponse, and its
\* callers)
\* ------------------------------------------------------------------------
\* the reply the operation read last has no code
LastReplyMalformed == op.replies # <<>> /\ op.replies[Len(op.replies)] = NoCode

\* calls on the data socket that move file bytes, or prepare to
Moving ==
    DataAt("accept") \cup DataAt("send") \cup DataAt("open") \cup DataAt("recv")
        \cup DataAt("write")

\* C27: a reply whose code is absent (malformed) is never treated as success
\* by any caller: login does not set authenticated, data-channel negotiation
\* fails, a transfer does not start, a completed transfer is not reported
\* successful, and the working directory is not updated
C27_MalformedNeverSuccess ==
    /\ op.name \in {"login", "open"} /\ LastReplyMalformed =>
          ~op.ret /\ logged_in = op.was.logged_in
    /\ Transfer /\ op.replies # <<>> /\ op.replies[1] = NoCode =>
          /\ Commands(Cmd.STOR) = {} /\ Commands(Cmd.RETR) = {}
          /\ DataAt("connect") = {} /\ Moving = {}
          /\ op.report \in {"put_error", "get_error"}
    /\ Transfer /\ OwnReplies >= 1 /\ RetrCode = NoCode =>
          Moving = {} /\ op.report \in {"stor_failed", "retr_failed"}
    /\ Transfer /\ OwnReplies = 2 /\ CompletionCode = NoCode =>
          op.report \in {"upload_failed", "download_failed"}
    /\ op.name = "cd" /\ LastReplyMalformed =>
          current_dir = op.was.current_dir /\ op.report = "cwd_failed"

C27_Witness ==
    /\ op.name = "cd" /\ op.arg = <<".", ".">> /\ op.replies = <<NoCode>>
    /\ current_dir = <<"/", "d">> /\ op.report = "cwd_failed"

\* ------------------------------------------------------------------------
\* Properties of the order of the steps (clamav_agent.py, handle_client)
\* ------------------------------------------------------------------------
\* the states of a connection in their order: AWAIT_FILENAME, AWAIT_SIZE,
\* RECEIVE_PAYLOAD, SCANNING, RESPONDED, and CLOSED, which the "except"
\* branch reaches from every state
Rank(pc) ==
    CASE pc = "free" -> 0
      [] pc = "await_filename" -> 1
      [] pc = "await_size" -> 2
      [] pc = "receive" -> 3
      [] pc = "scan" -> 4
      [] pc = "respond" -> 5
      [] pc \in {"error", "closed"} -> 6

\* one step of handler h: to the next state, on in RECEIVE_PAYLOAD while
\* bytes are missing, through it at once when no byte is to come, or to
\* CLOSED
InOrder(h) ==
    \/ handlers'[h].pc = handlers[h].pc /\ handlers[h].pc \in {"receive", "closed"}
    \/ Rank(handlers'[h].pc) = Rank(handlers[h].pc) + 1
    \/ /\ handlers[h].pc = "await_size" /\ handlers'[h].pc = "scan"
       /\ handlers'[h].file_size <= 0 /\ handlers'[h].created
    \/ handlers[h].pc \notin {"free", "closed"} /\ handlers'[h].pc = "error"
    \/ handlers[h].pc = "error" /\ handlers'[h].pc = "closed"

\* what handler h has written and done so far came in the order of the
\* protocol
Ordered(h) ==
    /\ handlers[h].out # <<>> /\ handlers[h].out[1] = "READY" =>
          StartsWith(handlers[h].first, FILENAME_)
    /\ Len(handlers[h].out) >= 2 /\ handlers[h].out[2] = "READY" =>
          handlers[h].out[1] = "READY" /\ StartsWith(handlers[h].second, SIZE_)
    /\ handlers[h].created \/ handlers[h].result # "" =>
          Len(handlers[h].out) >= 2 /\ SubSeq(handlers[h].out, 1, 2) = <<"READY", "READY">>
    /\ handlers[h].result # "" => handlers[h].created
    /\ \A i \in 1..Len(handlers[h].out) :
          handlers[h].out[i] \in {"OK", "INFECTED"} =>
              i = 3 /\ handlers[h].result = handlers[h].out[i]
    /\ handlers[h].pc \in {"scan", "respond"} => handlers[h].created

\* C28: on an agent connection the steps happen only in the order
\* AWAIT_FILENAME, AWAIT_SIZE, RECEIVE_PAYLOAD, SCANNING, RESPONDED, CLOSED:
\* the first READY is sent only after a FILENAME: message, the second only
\* after a SIZE: message, the temp file is created and the scanner invoked
\* only after the second READY, and the scan result is written only after
\* the scanner returned; no state is skipped forward or revisited (a failure
\* goes to CLOSED from where it happens)
C28_StepsInOrder ==
    /\ [](\A h \in Handlers : Ordered(h))
    /\ [][\A h \in Handlers : handlers'[h] # handlers[h] => InOrder(h)]_vars

C28_Witness ==
    \E h \in Handlers :
        /\ handlers[h].pc = "closed" /\ handlers[h].received = 1
        /\ handlers[h].out = <<"READY", "READY", "INFECTED">>

\* ------------------------------------------------------------------------
\* Properties of the scan request (network_utils.py, send_file_to_clamav)
\* ------------------------------------------------------------------------
\* the places of a call in the log of the calls on the socket to the agent
ScanAt(what) == {i \in 1..Len(op.scan) : op.scan[i] = what}

\* the replies read before call i of that log
GotBefore(i) == Cardinality({k \in ScanAt("recv") : k < i})

\* an operation that made a scan request
ScanRequest == op.name \in {"scan", "put", "mput_file"} /\ op.scan # <<>>

\* the handshake in lock-step, on one connection
HandshakeInStep ==
    /\ Cardinality(ScanAt("connect")) = 1 /\ op.scan[1] = "connect"
    /\ \A i \in ScanAt("send_size") : GotBefore(i) = 1 /\ op.scan_got[1] = READY
    /\ \A i \in ScanAt("send_chunk") \cup ScanAt("recv_result") :
          GotBefore(i) = 2 /\ op.scan_got[2] = READY
    /\ \A i \in ScanAt("recv_result") : \A k \in ScanAt("send_chunk") : k < i
    /\ Cardinality(ScanAt("send_filename")) <= 1 /\ Cardinality(ScanAt("send_size")) <= 1
    /\ op.scan_msgs # <<>> => op.scan_msgs[1] = FILENAME_ \o Basename(op.arg.name)
    /\ Len(op.scan_msgs) >= 2 => op.scan_msgs[2] = SIZE_ \o IntToStr(op.arg.size)

\* C29: the scan-gateway client is lock-step: it sends SIZE only after
\* receiving READY for FILENAME, sends no payload byte before receiving READY
\* for SIZE, sends exactly the declared number of payload bytes, and reads
\* the JSON result only after the whole payload was sent, all on a single
\* connection used for that one scan request
C29_ScanLockStep ==
    ScanRequest =>
        /\ HandshakeInStep
        /\ op.scan_bytes <= op.arg.size
        /\ ScanAt("recv_result") # {} => op.scan_bytes = op.arg.size

\* ------------------------------------------------------------------------
\* Properties of active mode (ftp_client.py, _open_active_data_connection)
\* ------------------------------------------------------------------------
\* a transfer begun in active mode
ActiveTransfer == Transfer /\ ~op.was.passive_mode

\* socket(), bind() and listen() came before data call i, in this order
Listening(i) ==
    \E s \in DataAt("socket"), b \in DataAt("bind"), l \in DataAt("listen") :
        s < b /\ b < l /\ l < i

\* C30: in active mode the client sends the PORT command only after its
\* listening socket is bound and listening; when the PORT reply is not
\* positive the listening socket is closed and the failure surfaced with no
\* RETR/STOR sent; when it is positive the client calls accept exactly once,
\* after the 1xx reply to RETR/STOR and before any file byte is read or
\* written
C30_ActiveMode ==
    ActiveTransfer =>
        /\ Commands(Cmd.PASV) = {} /\ DataAt("connect") = {}
        /\ \A i \in DataAt("port") : Listening(i)
        /\ Commands(Cmd.PORT) # {} =>
              Len(op.data) >= 3 /\ SubSeq(op.data, 1, 3) = <<"socket", "bind", "listen">>
        /\ op.replies # <<>> /\ op.replies[1] \notin 200..299 =>
              /\ Cardinality(DataAt("close_listen")) = 1
              /\ op.data[Len(op.data)] = "close_listen"
              /\ op.report \in {"put_error", "get_error"}
              /\ Commands(Cmd.STOR) = {} /\ Commands(Cmd.RETR) = {}
              /\ DataAt("accept") = {}
        /\ Cardinality(DataAt("accept")) <= 1
        /\ \A i \in DataAt("accept") :
              /\ op.replies[1] \in 200..299
              /\ RepliesBefore(i) = 1 /\ RetrCode \in 100..199
              /\ \A k \in DataAt("send") \cup DataAt("recv") \cup DataAt("write") : i < k
        /\ OwnReplies >= 1 /\ RetrCode \in 100..199 => DataAt("accept") # {}
        /\ DataAt("send") \cup DataAt("recv") \cup DataAt("write") # {} =>
              DataAt("accept") # {}

C30_Witness ==
    /\ ActiveTransfer /\ op.name = "put" /\ op.report = "uploaded"
    /\ Cardinality(DataAt("accept")) = 1 /\ DataAt("send") # {}

\* ------------------------------------------------------------------------
\* Properties of the result (clamav_agent.py, handle_client)
\* ------------------------------------------------------------------------
\* the places of the JSON results among what handler h has written
Results(h) ==
    {i \in 1..Len(handlers[h].out) : handlers[h].out[i] \in {"OK", "INFECTED", "ERROR"}}

\* a result is the last thing written: nothing is written after it
ResultIsLast(h) ==
    /\ \A i \in Results(h) : i = Len(handlers[h].out)
    /\ Results(h) # {} => handlers'[h].out = handlers[h].out

\* C31: on each accepted agent connection at most one JSON result is ever
\* written, exactly one is written by the time the connection is closed when
\* no call on its socket raised, and nothing is written after a result (a
\* verdict sent is never followed by an error result)
C31_OneResult ==
    /\ [](\A h \in Handlers :
            /\ Cardinality(Results(h)) <= 1
            /\ handlers[h].pc = "closed" /\ ~handlers[h].io =>
                  Cardinality(Results(h)) = 1)
    /\ [][\A h \in Handlers : ResultIsLast(h)]_vars

\* a connection closed after a protocol violation with its error result,
\* beside one closed without a result after its socket had failed
C31_Witness ==
    \E h, g \in Handlers :
        /\ handlers[h].pc = "closed" /\ ~handlers[h].io
        /\ handlers[h].out = <<"READY", "ERROR">>
        /\ handlers[g].pc = "closed" /\ handlers[g].io /\ Results(g) = {}

\* ------------------------------------------------------------------------
\* Properties of the verdict under concurrency (clamav_agent.py,
\* handle_client and start)
\* ------------------------------------------------------------------------
\* C32: under any interleaving of concurrent handlers, two connections that
\* declare the same filename within the same second included, the verdict a
\* handler sends is the scanner's verdict on exactly the bytes received on
\* its own connection: what scan_file is called on holds those bytes and no
\* others, so OK is never sent for a payload the scanner would call infected
C32_OwnVerdict ==
    \A h \in Handlers :
        handlers[h].pc = "scan" =>
            /\ temp_files[handlers[h].path].exists
            /\ temp_files[handlers[h].path].data = OwnBytes(h)

\* ------------------------------------------------------------------------
\* Properties of the transfer mode (ftp_client.py, set_transfer_mode)
\* ------------------------------------------------------------------------
\* C33: transfer_mode changes only when the server answered TYPE
\* positively: after a reply that is not positive or is malformed, or when
\* the command could not be sent or the reply not be read, transfer_mode has
\* the value it had before the call
C33_ModeOnlyOnPositiveReply ==
    op.name = "type" /\ op.report # "mode_set" => transfer_mode = op.was.transfer_mode

\* ------------------------------------------------------------------------
\* Properties of the control channel (ftp_client.py, send_command and
\* receive_response, and their callers)
\* ------------------------------------------------------------------------
\* C34: the control channel stays in request/reply step: no command is sent
\* while a reply to an earlier command (the completion reply of a transfer
\* and a late reply to AUTH included) is still unread, and every operation
\* returns with no reply left unread, so that every reply read is the reply
\* to the command sent last
C34_RequestReplyInStep ==
    Logged =>
        /\ \A i \in 1..Len(op.calls) :
              op.calls[i].outcome = "sent" => op.calls[i].unread = 0
        /\ op.unread = 0

\* connect, alone or as the first step of open, has established a new
\* control connection: the TCP connect succeeded and the greeting was 220
Established ==
    /\ op.name \in {"connect", "open"}
    /\ Len(op.script) >= 2 /\ op.script[1] = Ok /\ op.script[2] = Reply.T220

\* C35: logged_in is true only for the control connection on which login
\* succeeded: when connect has established a new control socket, also
\* without a disconnect before it, logged_in is false until a login
\* succeeds on that socket
C35_FreshConnectionUnauthenticated ==
    Established => (logged_in => op.name = "open" /\ LastReplyPositive)

\* ------------------------------------------------------------------------
\* Properties of the scan request on a stream transport (network_utils.py,
\* send_file_to_clamav, against clamav_agent.py, handle_client)
\* ------------------------------------------------------------------------
\* the scan request of an empty file: the agent, following the protocol,
\* sends READY for SIZE:0 and, having no byte to wait for, its result OK
\* right behind it, and one recv() of the client delivered both sends
CoalescedVerdict ==
    /\ ScanRequest
    /\ Len(op.scan_msgs) >= 2 /\ op.scan_msgs[2] = SIZE_ \o IntToStr(0)
    /\ op.scan_got = <<READY, READY \o J("OK")>>

\* C36: for every file size, 0 included, with an agent that follows the
\* protocol and a transport that may deliver two consecutive sends of the
\* agent in one read, send_file_to_clamav returns the verdict the agent
\* produced: the second READY is not merged into the result
C36_VerdictSurvivesCoalescing ==
    CoalescedVerdict => ScanStatus = "OK"

\* the scan request got its connection to the agent: a step follows connect
ScanConnected == ScanRequest /\ Len(op.scan) >= 2

\* C37: send_file_to_clamav closes its connection to the agent on every
\* exit path (result received, unexpected handshake reply, transport
\* error, unparsable result): no scan connection is open when it returns
C37_ScanConnectionClosed ==
    ScanConnected => op.scan[Len(op.scan)] = "close"

\* ------------------------------------------------------------------------
\* Termination of handle_client (clamav_agent.py)
\* ------------------------------------------------------------------------
\* one blocking call of the handle_client thread of connection h returns
handle_client(h) ==
    \/ RecvFilename(h)
    \/ RecvSize(h)
    \/ RecvChunk(h)
    \/ Scan(h)
    \/ Respond(h)
    \/ HandleError(h)

\* the agent while its connections are served: the clock, which is read
\* once per connection to name the temp file and on which no step waits,
\* stands still
NextAgentLive ==
    \/ Start
    \/ \E h \in Handlers : Accept(h)
    \/ AcceptFails
    \/ \E h \in Handlers : handle_client(h)

\* every handler thread is scheduled, every recv() of it returns (the peer
\* sends or closes) and subprocess.run returns or hits its timeout
SpecAgentLive ==
    AgentAlone /\ [][NextAgentLive]_vars /\ \A h \in Handlers : WF_vars(handle_client(h))

\* C38: every accepted connection eventually reaches closed (handle_client
\* has closed it), provided the peer eventually sends what the current step
\* waits for or closes the connection, and the scanner returns or hits its
\* timeout
C38_EveryConnectionCloses ==
    \A h \in Handlers : handlers[h].pc # "free" ~> handlers[h].pc = "closed"

\* one connection was closed after its payload was received and scanned,
\* another after its peer closed before the payload was complete
C38_Witness ==
    \E h, g \in Handlers :
        /\ handlers[h].pc = "closed" /\ handlers[h].file_size > 0
        /\ handlers[h].received = handlers[h].file_size /\ handlers[h].result = "OK"
        /\ handlers[g].pc = "closed" /\ handlers[g].eof
        /\ handlers[g].received < handlers[g].file_size

\* ------------------------------------------------------------------------
\* Properties of the session check (ftp_commands.py, _check_connection and
\* the commands that start with it)
\* ------------------------------------------------------------------------
\* the commands of the file operations
SessionCommands == {Cmd.PASV, Cmd.PORT, Cmd.LIST, Cmd.RETR, Cmd.STOR, Cmd.CWD}

\* the calls of send_command that wrote one of them to the control socket
SessionCalls ==
    {i \in 1..Len(op.calls) :
        /\ op.calls[i].outcome = "sent"
        /\ \E verb \in SessionCommands : StartsWith(op.calls[i].command, verb)}

SizeValue(h) == SubSeq(handlers[h].second, 6, Len(handlers[h].second))

\* a decimal byte count: digits, and nothing but digits
IsCount(text) == text # <<>> /\ \A i \in 1..Len(text) : text[i] \in Digits

\* the connection delivered a SIZE message whose value is no byte count
BadSize(h) ==
    /\ handlers[h].second \notin {NoMsg, Fail}
    /\ StartsWith(handlers[h].second, SIZE_)
    /\ ~IsCount(SizeValue(h))

\* C40: the agent accepts a SIZE message only when its value is a
\* non-negative decimal byte count: for a value that is not a number, or
\* negative, it answers with an ERROR result and closes, without a second
\* READY, without creating a temp file and without invoking the scanner, so
\* it returns no verdict for a payload it did not receive
C40_SizeIsByteCount ==
    \A h \in Handlers :
        BadSize(h) =>
            /\ handlers[h].pc \in {"error", "closed"}
            /\ handlers[h].out \in {<<"READY">>, <<"READY", "ERROR">>}
            /\ ~handlers[h].created /\ handlers[h].path = NoPath
            /\ handlers[h].result = ""

====
